---- MODULE Spec2Model ----
(***************************************************************************)
(* ConstelAR: the air-quality fallback chain of the FastAPI router         *)
(* (/latest and /normalized), and the browser client that loads            *)
(* measurements for the map (lib/api.js result cache, MapView viewport     *)
(* loads and point clicks).                                                *)
(***************************************************************************)
EXTENDS Integers, Sequences, FiniteSets, TLC

(***************************************************************************)
(* Bounds of the model                                                     *)
(***************************************************************************)
MaxItems == 2      \* records in one OpenAQ reply
MaxTimes == 2      \* hours in one Open-Meteo reply
MaxRequests == 2   \* backend requests served in one behaviour
MaxRows == 1       \* rows in one body received by the browser
MaxTicks == 2      \* clock advances in one behaviour
MaxMounts == 2     \* runs of the MapView effect in one behaviour
MaxLoads == 2      \* loadForCurrentView calls in one behaviour
MaxClicks == 2     \* map clicks in one behaviour
MaxMoves == 3      \* timed moveend events in one behaviour
MaxSearches == 2   \* city search requests in one behaviour

(***************************************************************************)
(* Backend: src/unnamed/part_001 (FastAPI router)                          *)
(***************************************************************************)
VARIABLES
  req,        \* the request being served: endpoint, query mode, limit
  bpc,        \* position of the handler: idle, the attempt about to run, done
  calls,      \* upstream GETs issued for this request, in order (_get calls)
  outcomes,   \* what each of those GETs produced: usable record count or -1 on error
  response,   \* the HTTP response of the handler
  served      \* number of requests served so far

bvars == <<req, bpc, calls, outcomes, response, served>>

(***************************************************************************)
(* Browser: src/frontend/src/lib/api.js and components/MapView.jsx         *)
(***************************************************************************)
VARIABLES
  now,        \* Date.now(), in ms
  ticks,      \* number of clock advances so far
  cache,      \* the module-level cache Map of api.js: key -> {value, exp}
  lastSet,    \* history: per key, the last setCache (time, value, writer)
  ctl,        \* the AbortControllers created so far: TRUE when aborted
  abortRef,   \* abortRef.current: 0 for null, else a controller
  mounts,     \* one entry per run of the MapView effect (one map instance each)
  mounted,    \* the component is mounted
  fetcher,    \* the fetcher prop: the default fetchMeasurements or a custom one
  loads,      \* the loadForCurrentView calls made so far
  layer,      \* data of the aq-points source of the current map
  httpCount,  \* history: number of fetch() calls issued
  clicks,     \* the onClick calls made so far
  selection   \* data of the selected-point source of the current map, and popups

cvars == <<now, ticks, cache, lastSet>>
mvars == <<ctl, abortRef, mounts, mounted, fetcher, loads, layer, httpCount>>
kvars == <<clicks, selection>>

(***************************************************************************)
(* Browser: the click handler ref and the debounce timer of MapView.jsx,   *)
(* components/SubscriptionModal.jsx and components/SubscriptionForm.jsx    *)
(***************************************************************************)
VARIABLES
  clickHandlerRef,  \* clickHandlerRef.current: 0 for null, else the onClick of a mount
  due,        \* deadlines of the pending timers of debounce()
  dlog,       \* history: moveend events and debounced calls, with their times
  modal,      \* SubscriptionModal and the parts of the document it touches
  form        \* SubscriptionForm: state, city search timer, requests, cache

dvars == <<due, dlog>>
xvars == <<clickHandlerRef, dvars, modal, form>>
vvars == <<cvars, mvars, kvars, xvars>>

(***************************************************************************)
(* Pure functions of lib/api.js (key, normalizer, aliases, radius): the    *)
(* argument a function is applied to and the value it returned             *)
(***************************************************************************)
VARIABLES
  pin,        \* the argument
  pout,       \* the returned value
  pdone       \* whether the function has been applied

pvars == <<pin, pout, pdone>>

vars == <<bvars, vvars, pvars>>

NULL == -1

\* HTTP statuses raise_for_status() turns into requests.HTTPError
ErrorStatuses == {400, 404, 410, 422, 429, 500, 503}

\* variant: 422 left out of the no-match statuses
NoMatchStatusesNo422 == {400, 404, 410}

\* the "no match" statuses the /latest handler falls through on
NoMatchStatuses == {400, 404, 410, 422}

Limits == {1, 2}
QueryModes == {"coords", "city", "default"}

\* an OpenAQ record; wf = FALSE: a key the normalizer reads is missing
RawItems == [parameter : {"pm25"}, value : {7}, datetime : {1}, wf : BOOLEAN]

SeqsUpTo(S, n) == UNION {[1..k -> S] : k \in 0..n}

\* keys present in the "hourly" object of an Open-Meteo reply
OMInputKeys == {"pm2_5", "ozone"}

Hourlies == [time : {[i \in 1..k |-> i] : k \in 0..MaxTimes},
             series : [OMInputKeys -> SeqsUpTo({NULL, 5}, MaxTimes)]]

NoHourly == [time |-> <<>>, series |-> [k \in OMInputKeys |-> <<>>]]

\* what _get() can do: return the JSON body, raise HTTPError(status), or raise
\* another RequestException (connection error, timeout)
OpenAQOutcomes ==
  [kind : {"ok"}, status : {200}, items : SeqsUpTo(RawItems, MaxItems)]
  \cup [kind : {"http"}, status : ErrorStatuses, items : {<<>>}]
  \cup [kind : {"net"}, status : {0}, items : {<<>>}]

OpenMeteoOutcomes ==
  [kind : {"ok"}, status : {200}, hourly : Hourlies]
  \cup [kind : {"http"}, status : ErrorStatuses, hourly : {NoHourly}]
  \cup [kind : {"net"}, status : {0}, hourly : {NoHourly}]

NoResponse == [kind |-> "none", status |-> 0, source |-> "", results |-> <<>>]
OkResponse(src, rs) == [kind |-> "ok", status |-> 200, source |-> src, results |-> rs]
\* HTTPException(status_code=502) or an exception nobody catches (500)
ErrorResponse(st) == [kind |-> "error", status |-> st, source |-> "", results |-> <<>>]

NoRequest == [endpoint |-> "", mode |-> "", limit |-> 0]

\* variant: the list is not cut
TakeAll(s, n) == s

\* s[:n]
Take(s, n) == IF Len(s) <= n THEN s ELSE SubSeq(s, 1, n)

SelectWf(s) == SelectSeq(s, LAMBDA r : r.wf)

\* _normalize_openaq_measurements: records with a missing key are skipped
NormalizeOpenaqMeasurements(items) == SelectWf(items)

OMRecord(key, v, t) == [parameter |-> key, value |-> v, datetime |-> t, wf |-> TRUE]

KeyIn(hourly, key) == key \in DOMAIN hourly.series

\* keys /latest reads from the hourly object, in the order it reads them
LatestKeys == <<"pm2_5", "pm10", "ozone", "nitrogen_dioxide", "sulphur_dioxide", "carbon_monoxide">>

\* keys _fetch_openmeteo reads
NormalizedKeys == <<"pm2_5", "pm10", "ozone">>

RECURSIVE LatestOutFrom(_, _, _)
LatestOutFrom(hourly, idx, i) ==
  IF i > Len(LatestKeys) THEN <<>>
  ELSE LET key == LatestKeys[i]
           rest == LatestOutFrom(hourly, idx, i + 1)
       IN IF KeyIn(hourly, key) /\ Len(hourly.series[key]) >= idx
             /\ hourly.series[key][idx] # NULL
          THEN <<OMRecord(key, hourly.series[key][idx], hourly.time[idx])>> \o rest
          ELSE rest

\* /latest, attempt 3: the entry at the last index of hourly.time, per key
LatestOpenMeteoOut(hourly) ==
  IF Len(hourly.time) > 0 THEN LatestOutFrom(hourly, Len(hourly.time), 1) ELSE <<>>

RECURSIVE FetchRowFrom(_, _, _)
FetchRowFrom(hourly, i, p) ==
  IF p > Len(NormalizedKeys) THEN <<>>
  ELSE LET key == NormalizedKeys[p]
           serie == IF KeyIn(hourly, key) THEN hourly.series[key] ELSE <<>>
           rest == FetchRowFrom(hourly, i, p + 1)
       IN IF i <= Len(serie) /\ serie[i] # NULL
          THEN <<OMRecord(key, serie[i], hourly.time[i])>> \o rest
          ELSE rest

RECURSIVE FetchResultsFrom(_, _)
FetchResultsFrom(hourly, i) ==
  IF i > Len(hourly.time) THEN <<>>
  ELSE FetchRowFrom(hourly, i, 1) \o FetchResultsFrom(hourly, i + 1)

\* _fetch_openmeteo: every hour, every key, non-null entries, cut to limit
FetchOpenmeteo(hourly, limit) ==
  OkResponse("open-meteo/air-quality", Take(FetchResultsFrom(hourly, 1), limit))

\* the sources each endpoint tries, in priority order
Chain(endpoint) ==
  IF endpoint = "latest"
  THEN <<"openaq/latest", "openaq/measurements", "open-meteo/air-quality">>
  ELSE <<"openaq/measurements", "open-meteo/air-quality">>

\* handler position from which the i-th source of the chain is tried
AttemptPc(endpoint, i) ==
  IF endpoint = "latest" THEN <<"latest1", "latest2", "latest3">>[i]
  ELSE <<"normalized1", "normalized2">>[i]

\* what one upstream GET contributed: its kind, status and usable record count
Outcome(o, usable) == [kind |-> o.kind, status |-> o.status, usable |-> usable]

\* variant: Open-Meteo is asked even when OpenAQ brought records
NormalizedAfterOpenAQAlways(o, limit) ==
  [pc |-> "normalized2", response |-> NoResponse]

\* variant: every HTTPError falls through to the next attempt
LatestAfterOpenAQContinue(o, src, nextpc) ==
  IF o.kind = "ok"
  THEN [pc |-> "done", response |-> OkResponse(src, o.items)]
  ELSE IF o.kind = "http"
  THEN [pc |-> nextpc, response |-> NoResponse]
  ELSE [pc |-> "done", response |-> ErrorResponse(500)]

\* /latest, attempts 1 and 2: return the raw body on success; an HTTPError with
\* a no-match status falls through to the next attempt; any other HTTPError is
\* turned into a 502; an exception that is not an HTTPError is not caught
LatestAfterOpenAQ(o, src, nextpc) ==
  IF o.kind = "ok"
  THEN [pc |-> "done", response |-> OkResponse(src, o.items)]
  ELSE IF o.kind = "http"
  THEN IF o.status \notin NoMatchStatuses
       THEN [pc |-> "done", response |-> ErrorResponse(502)]
       ELSE [pc |-> nextpc, response |-> NoResponse]
  ELSE [pc |-> "done", response |-> ErrorResponse(500)]

\* variant: a failure of Open-Meteo is swallowed into an empty answer
LatestAfterOpenMeteoSwallow(o) ==
  [pc |-> "done",
   response |-> OkResponse("open-meteo/air-quality",
                           IF o.kind = "ok" THEN LatestOpenMeteoOut(o.hourly) ELSE <<>>)]

\* /latest, attempt 3: compact Open-Meteo answer, or 502 on any RequestException
LatestAfterOpenMeteo(o) ==
  IF o.kind = "ok"
  THEN [pc |-> "done",
        response |-> OkResponse("open-meteo/air-quality", LatestOpenMeteoOut(o.hourly))]
  ELSE [pc |-> "done", response |-> ErrorResponse(502)]

\* /normalized, step 1: oa_results, empty on any RequestException
OaResults(o) == IF o.kind = "ok" THEN NormalizeOpenaqMeasurements(o.items) ELSE <<>>

\* /normalized, steps 2 and 3: answer with OpenAQ if it brought something
NormalizedAfterOpenAQ(o, limit) ==
  IF OaResults(o) # <<>>
  THEN [pc |-> "done",
        response |-> OkResponse("openaq/measurements", Take(OaResults(o), limit))]
  ELSE [pc |-> "normalized2", response |-> NoResponse]

\* /normalized, fallback: _fetch_openmeteo is called outside any try block
NormalizedAfterOpenMeteo(o, limit) ==
  IF o.kind = "ok"
  THEN [pc |-> "done", response |-> FetchOpenmeteo(o.hourly, limit)]
  ELSE [pc |-> "done", response |-> ErrorResponse(500)]

BInit ==
  /\ req = NoRequest
  /\ bpc = "idle"
  /\ calls = <<>>
  /\ outcomes = <<>>
  /\ response = NoResponse
  /\ served = 0

\* a request arrives at one of the two endpoints
Receive ==
  /\ bpc = "idle"
  /\ served < MaxRequests
  /\ \E ep \in {"latest", "normalized"}, m \in QueryModes, l \in Limits :
       /\ req' = [endpoint |-> ep, mode |-> m, limit |-> l]
       /\ bpc' = AttemptPc(ep, 1)
  /\ calls' = <<>>
  /\ outcomes' = <<>>
  /\ response' = NoResponse
  /\ UNCHANGED served
  /\ UNCHANGED <<vvars, pvars>>

Latest1 ==
  /\ bpc = "latest1"
  /\ \E o \in OpenAQOutcomes :
       LET r == LatestAfterOpenAQ(o, "openaq/latest", "latest2")
       IN /\ calls' = Append(calls, "openaq/latest")
          /\ outcomes' = Append(outcomes, Outcome(o, Len(o.items)))
          /\ bpc' = r.pc
          /\ response' = r.response
  /\ UNCHANGED <<req, served>>
  /\ UNCHANGED <<vvars, pvars>>

Latest2 ==
  /\ bpc = "latest2"
  /\ \E o \in OpenAQOutcomes :
       LET r == LatestAfterOpenAQ(o, "openaq/measurements", "latest3")
       IN /\ calls' = Append(calls, "openaq/measurements")
          /\ outcomes' = Append(outcomes, Outcome(o, Len(o.items)))
          /\ bpc' = r.pc
          /\ response' = r.response
  /\ UNCHANGED <<req, served>>
  /\ UNCHANGED <<vvars, pvars>>

Latest3 ==
  /\ bpc = "latest3"
  /\ \E o \in OpenMeteoOutcomes :
       LET r == LatestAfterOpenMeteo(o)
       IN /\ calls' = Append(calls, "open-meteo/air-quality")
          /\ outcomes' = Append(outcomes, Outcome(o, Len(LatestOpenMeteoOut(o.hourly))))
          /\ bpc' = r.pc
          /\ response' = r.response
  /\ UNCHANGED <<req, served>>
  /\ UNCHANGED <<vvars, pvars>>

Normalized1 ==
  /\ bpc = "normalized1"
  /\ \E o \in OpenAQOutcomes :
       LET r == NormalizedAfterOpenAQ(o, req.limit)
       IN /\ calls' = Append(calls, "openaq/measurements")
          /\ outcomes' = Append(outcomes, Outcome(o, Len(OaResults(o))))
          /\ bpc' = r.pc
          /\ response' = r.response
  /\ UNCHANGED <<req, served>>
  /\ UNCHANGED <<vvars, pvars>>

Normalized2 ==
  /\ bpc = "normalized2"
  /\ \E o \in OpenMeteoOutcomes :
       LET r == NormalizedAfterOpenMeteo(o, req.limit)
       IN /\ calls' = Append(calls, "open-meteo/air-quality")
          /\ outcomes' = Append(outcomes, Outcome(o, Len(FetchResultsFrom(o.hourly, 1))))
          /\ bpc' = r.pc
          /\ response' = r.response
  /\ UNCHANGED <<req, served>>
  /\ UNCHANGED <<vvars, pvars>>

\* the response is sent; the worker is free for the next request
Respond ==
  /\ bpc = "done"
  /\ bpc' = "idle"
  /\ served' = served + 1
  /\ UNCHANGED <<req, calls, outcomes, response>>
  /\ UNCHANGED <<vvars, pvars>>


(***************************************************************************)
(* lib/api.js                                                              *)
(***************************************************************************)
TTL_MS == 120000

Pollutants == {"no2", "o3"}
DEFAULT_POLLUTANT == "no2"
Views == {1, 2}             \* bounding boxes bboxFromMap can return
CacheKeys == [pollutant : Pollutants, bbox : Views]

\* cacheKey: `${pollutant}:${bbox.join(",")}`
cacheKey(p, b) == [pollutant |-> p, bbox |-> b]

\* a row of the body: tuple6 = it is an array of at least 6 entries
Rows == [tuple6 : BOOLEAN]
Bodies == [shape : {"features", "results", "other"}, rows : SeqsUpTo(Rows, MaxRows)]
EmptyFC == <<>>

\* statuses the backend can answer the browser with
HttpStatuses == {200, 404, 500}
ResOk(status) == status >= 200 /\ status <= 299

\* tempoResultsToGeoJSON: rows that are arrays of 6 or more entries become features
tempoResultsToGeoJSON(body) ==
  IF body.shape = "results" THEN SelectSeq(body.rows, LAMBDA r : r.tuple6) ELSE EmptyFC

\* passthroughOrTempoToGeoJSON: a features array is taken as it is
passthroughOrTempoToGeoJSON(body) ==
  IF body.shape = "features" THEN body.rows ELSE tempoResultsToGeoJSON(body)

NoEntry == [present |-> FALSE, value |-> EmptyFC, exp |-> 0]

\* variant: the bounding box is left out of the key the entry is stored under
setCacheAnyBbox(c, k, v, t) ==
  [q \in DOMAIN c |->
     IF q.pollutant = k.pollutant
     THEN [present |-> TRUE, value |-> v, exp |-> t + 120000]
     ELSE c[q]]

\* variant: an entry that is already there is kept
setCacheKeepFirst(c, k, v, t) ==
  IF c[k].present THEN c
  ELSE [c EXCEPT ![k] = [present |-> TRUE, value |-> v, exp |-> t + 120000]]

\* variant: the expiry is the time of the set, without the TTL
setCacheNoTtl(c, k, v, t) == [c EXCEPT ![k] = [present |-> TRUE, value |-> v, exp |-> t]]

\* setCache: cache.set(k, {value: v, exp: Date.now() + TTL_MS})
setCache(c, k, v, t) == [c EXCEPT ![k] = [present |-> TRUE, value |-> v, exp |-> t + TTL_MS]]

\* variant: an expired entry is reported as a miss but stays in the map
getCacheKeep(c, k, t) ==
  IF ~c[k].present THEN [hit |-> FALSE, value |-> EmptyFC, cache |-> c]
  ELSE IF t > c[k].exp
  THEN [hit |-> FALSE, value |-> EmptyFC, cache |-> c]
  ELSE [hit |-> TRUE, value |-> c[k].value, cache |-> c]

\* variant: an entry already counts as expired at its expiry time
getCacheStrict(c, k, t) ==
  IF ~c[k].present THEN [hit |-> FALSE, value |-> EmptyFC, cache |-> c]
  ELSE IF t >= c[k].exp
  THEN [hit |-> FALSE, value |-> EmptyFC, cache |-> [c EXCEPT ![k] = NoEntry]]
  ELSE [hit |-> TRUE, value |-> c[k].value, cache |-> c]

\* getCache: the value on a hit; on an expired entry, delete it and miss
getCache(c, k, t) ==
  IF ~c[k].present THEN [hit |-> FALSE, value |-> EmptyFC, cache |-> c]
  ELSE IF t > c[k].exp
  THEN [hit |-> FALSE, value |-> EmptyFC, cache |-> [c EXCEPT ![k] = NoEntry]]
  ELSE [hit |-> TRUE, value |-> c[k].value, cache |-> c]

\* fetchAtPoint after res.json(): the properties of the first feature, or null
fetchAtPointResult(body) ==
  LET fc == passthroughOrTempoToGeoJSON(body)
  IN IF Len(fc) > 0 THEN "value" ELSE "null"

\* variant: the `if (!res.ok) throw` line is missing
FetchEndNoOkCheck(kind, status) ==
  IF kind = "net" THEN "rejected"
  ELSE IF kind = "json" THEN "rejected"
  ELSE "resolved"

\* how a call of fetchMeasurements / fetchAtPoint ends for a given answer:
\* net = fetch() itself failed, json = the body is not JSON
FetchEnd(kind, status) ==
  IF kind = "net" THEN "rejected"
  ELSE IF ~ResOk(status) THEN "rejected"
  ELSE IF kind = "json" THEN "rejected"
  ELSE "resolved"

FetchCause(kind, status) ==
  IF kind = "net" THEN "network"
  ELSE IF ~ResOk(status) THEN "status"
  ELSE IF kind = "json" THEN "json"
  ELSE ""

(***************************************************************************)
(* components/MapView.jsx                                                  *)
(***************************************************************************)
\* the modal before it is rendered, and the form as useState creates it
NoModal ==
  [mounted |-> FALSE, isOpen |-> FALSE, hasRoot |-> FALSE, modalOpen |-> FALSE,
   ariaHidden |-> FALSE, inert |-> FALSE, keydown |-> FALSE, focusTimer |-> FALSE,
   restoreTimer |-> FALSE, lastActive |-> "", active |-> "body"]
NoSearch == [state |-> "", q |-> ""]
NoCities == [from |-> NoSearch, n |-> 0]
CityKeys == [state : {"US-CA", "US-TX"}, q : {"sa", "sp"}]
NewForm ==
  [state |-> "", city |-> "", timer |-> NoSearch, reqs |-> <<>>, cities |-> NoCities,
   cityCache |-> [k \in CityKeys |-> [present |-> FALSE, value |-> NoCities]]]

NoLastSet == [any |-> FALSE, at |-> 0, value |-> EmptyFC, stale |-> FALSE]
NoLayer == [owner |-> 0, data |-> EmptyFC, stale |-> FALSE]
NoSelection == [click |-> 0, hasValue |-> FALSE, popups |-> <<>>]

NewMount(p) ==
  [pollutant |-> p, view |-> 1, alive |-> TRUE, bootPending |-> TRUE,
   listeners |-> {}, timer |-> FALSE]

VInitWith(fetchers) ==
  /\ now = 0
  /\ ticks = 0
  /\ cache = [k \in CacheKeys |-> NoEntry]
  /\ lastSet = [k \in CacheKeys |-> NoLastSet]
  /\ ctl = <<>>
  /\ abortRef = 0
  /\ mounts = <<NewMount(DEFAULT_POLLUTANT)>>
  /\ mounted = TRUE
  /\ fetcher \in fetchers
  /\ loads = <<>>
  /\ layer = NoLayer
  /\ httpCount = 0
  /\ clicks = <<>>
  /\ selection = NoSelection
  /\ clickHandlerRef = 0
  /\ due = {}
  /\ dlog = <<>>
  /\ modal = NoModal
  /\ form = NewForm

VInit == VInitWith({"default", "custom"})

\* variant: the very first controller is never aborted
AbortCurrentButFirst(c, ref) == IF ref <= 1 THEN c ELSE [c EXCEPT ![ref] = TRUE]

\* variant: the previous controller is left alone
AbortCurrentSkip(c, ref) == c

\* abortRef.current?.abort()
AbortCurrent(c, ref) == IF ref = 0 THEN c ELSE [c EXCEPT ![ref] = TRUE]

\* the name of the error that ends a load with the given cause; "removed" is
\* map.getSource of a removed map
ErrorName(cause) ==
  IF cause = "abort" THEN "AbortError"
  ELSE IF cause = "network" THEN "TypeError"
  ELSE IF cause = "json" THEN "SyntaxError"
  ELSE IF cause = "removed" THEN "TypeError"
  ELSE "Error"

\* variant: the catch logs whatever it caught
LogsErrorAlways(name) == TRUE

\* catch (e) { if (e?.name !== "AbortError") console.error("AQ load error:", e); }
LogsError(name) == name # "AbortError"

\* the catch of a load whose fetcher resolved: setting the layer of a removed
\* map throws
LogsAfterResolve(alive) == ~alive /\ LogsError(ErrorName("removed"))

\* fetch() and res.json() reject with AbortError once their signal is aborted;
\* a custom fetcher is free to ignore the signal
RejectAborted(ls, c) ==
  [i \in 1..Len(ls) |->
     IF ls[i].via = "http" /\ ls[i].st \in {"fetch", "body"} /\ c[ls[i].ctl]
     THEN [ls[i] EXCEPT !.st = "rejected", !.cause = "abort",
                        !.logged = LogsError(ErrorName("abort"))]
     ELSE ls[i]]

\* what setData(geojson) leaves in the aq-points source; a removed map throws
\* instead, and the catch of loadForCurrentView only logs
SetLayer(l, i, fc, alive, aborted) ==
  IF alive THEN [owner |-> i, data |-> fc, stale |-> aborted] ELSE l

\* loadForCurrentView of the map of mount m, up to the first await that has to
\* wait: abort the previous controller, create one, call the fetcher. On a
\* cache hit the call resolves at once and the layer is set in the same task.
LoadForCurrentView(m) ==
  LET c1 == AbortCurrent(ctl, abortRef)
      id == Len(ctl) + 1
      c2 == Append(c1, FALSE)
      key == cacheKey(mounts[m].pollutant, mounts[m].view)
      got == getCache(cache, key, now)
      ls == RejectAborted(loads, c1)
      i == Len(loads) + 1
      base == [mount |-> m, ctl |-> id, key |-> key, via |-> "", st |-> "",
               cause |-> "", status |-> 0, fc |-> EmptyFC, logged |-> FALSE]
  IN /\ Len(loads) < MaxLoads
     /\ ctl' = c2
     /\ abortRef' = id
     /\ IF fetcher = "custom"
        THEN /\ loads' = Append(ls, [base EXCEPT !.via = "custom", !.st = "fetch"])
             /\ UNCHANGED <<cache, layer, httpCount>>
        ELSE IF got.hit
        THEN /\ loads' = Append(ls, [base EXCEPT !.via = "cache", !.st = "resolved",
                                                 !.fc = got.value,
                                                 !.logged = LogsAfterResolve(mounts[m].alive)])
             /\ layer' = SetLayer(layer, i, got.value, mounts[m].alive, FALSE)
             /\ UNCHANGED <<cache, httpCount>>
        ELSE /\ loads' = Append(ls, [base EXCEPT !.via = "http", !.st = "fetch"])
             /\ cache' = got.cache
             /\ httpCount' = httpCount + 1
             /\ UNCHANGED layer
     /\ UNCHANGED <<lastSet, now, ticks, mounted, fetcher>>

SetMount(m, f, v) == [mounts EXCEPT ![m] = [@ EXCEPT ![f] = v]]

\* ensureSelectionLayer: map.off("click", clickHandlerRef.current) when the ref
\* is set, then map.on("click", onClick) with the onClick just created
RegisterClick(ls, ref, onClick) == (ls \ {ref}) \cup {onClick}

\* variant: the cleanup leaves the handler registered
UnregisterClickNot(ls, ref) == ls

\* cleanup: if (map && clickHandlerRef.current) map.off("click", ...)
UnregisterClick(ls, ref) == ls \ {ref}

\* boot: ensureSelectionLayer(); loadForCurrentView()
Boot ==
  \E m \in 1..Len(mounts) :
    /\ mounts[m].alive /\ mounts[m].bootPending
    /\ LoadForCurrentView(m)
    /\ mounts' = [mounts EXCEPT ![m] = [@ EXCEPT !.bootPending = FALSE,
                      !.listeners = RegisterClick(@, clickHandlerRef, m)]]
    /\ clickHandlerRef' = m
    /\ UNCHANGED kvars
    /\ UNCHANGED <<bvars, pvars, dvars, modal, form>>

\* moveend: the debounced loadForCurrentView (re)arms its timer
MoveEnd ==
  \E m \in 1..Len(mounts), v \in Views :
    /\ mounts[m].alive
    /\ Len(loads) < MaxLoads
    /\ mounts' = [mounts EXCEPT ![m] = [@ EXCEPT !.view = v, !.timer = TRUE]]
    /\ UNCHANGED <<cvars, ctl, abortRef, mounted, fetcher, loads, layer, httpCount, kvars>>
    /\ UNCHANGED <<bvars, pvars, xvars>>

\* the debounce timer fires; nothing clears it when the map is removed
TimerFire ==
  \E m \in 1..Len(mounts) :
    /\ mounts[m].timer
    /\ LoadForCurrentView(m)
    /\ mounts' = SetMount(m, "timer", FALSE)
    /\ UNCHANGED kvars
    /\ UNCHANGED <<bvars, pvars, xvars>>

\* the effect cleanup: abort, unregister the click handler, remove the map
Cleanup(ms, ref) ==
  [m \in 1..Len(ms) |->
     IF ms[m].alive
     THEN [ms[m] EXCEPT !.alive = FALSE, !.bootPending = FALSE,
                        !.listeners = UnregisterClick(@, ref)]
     ELSE ms[m]]

\* a dependency of the effect changed: cleanup, then init with the new props
EffectRerun ==
  /\ mounted
  /\ Len(mounts) < MaxMounts
  /\ \E p \in Pollutants : mounts' = Append(Cleanup(mounts, clickHandlerRef), NewMount(p))
  /\ ctl' = AbortCurrent(ctl, abortRef)
  /\ loads' = RejectAborted(loads, AbortCurrent(ctl, abortRef))
  /\ layer' = NoLayer
  /\ selection' = NoSelection
  /\ UNCHANGED <<cvars, abortRef, mounted, fetcher, httpCount, clicks>>
  /\ UNCHANGED <<bvars, pvars, xvars>>

Unmount ==
  /\ mounted
  /\ mounted' = FALSE
  /\ mounts' = Cleanup(mounts, clickHandlerRef)
  /\ ctl' = AbortCurrent(ctl, abortRef)
  /\ loads' = RejectAborted(loads, AbortCurrent(ctl, abortRef))
  /\ UNCHANGED <<cvars, abortRef, fetcher, layer, httpCount, kvars>>
  /\ UNCHANGED <<bvars, pvars, xvars>>

\* fetch() of a viewport load settles: network failure, or a response whose
\* status decides between `throw new Error("API ...")` and reading the body
HttpRespond ==
  \E i \in 1..Len(loads) :
    /\ loads[i].via = "http" /\ loads[i].st = "fetch"
    /\ \E kind \in {"net", "res"}, status \in HttpStatuses :
         /\ kind = "net" => status = 200
         /\ loads' = [loads EXCEPT ![i] =
               IF FetchEnd(kind, status) = "rejected"
               THEN [@ EXCEPT !.st = "rejected", !.cause = FetchCause(kind, status),
                              !.status = IF kind = "net" THEN 0 ELSE status,
                              !.logged = LogsError(ErrorName(FetchCause(kind, status)))]
               ELSE [@ EXCEPT !.st = "body", !.status = status]]
    /\ UNCHANGED <<cvars, ctl, abortRef, mounts, mounted, fetcher, layer, httpCount, kvars>>
    /\ UNCHANGED <<bvars, pvars, xvars>>

\* res.json() settles; then setCache, return, and the layer update of the caller
BodyArrives ==
  \E i \in 1..Len(loads) :
    /\ loads[i].via = "http" /\ loads[i].st = "body"
    /\ \/ /\ loads' = [loads EXCEPT ![i] = [@ EXCEPT !.st = "rejected", !.cause = "json",
                                                   !.logged = LogsError(ErrorName("json"))]]
          /\ UNCHANGED <<cache, lastSet, layer>>
       \/ \E body \in Bodies :
            LET fc == passthroughOrTempoToGeoJSON(body)
                aborted == ctl[loads[i].ctl]
            IN /\ loads' = [loads EXCEPT ![i] = [@ EXCEPT !.st = "resolved",
                     !.logged = LogsAfterResolve(mounts[loads[i].mount].alive)]]
               /\ cache' = setCache(cache, loads[i].key, fc, now)
               /\ lastSet' = [lastSet EXCEPT ![loads[i].key] =
                     [any |-> TRUE, at |-> now, value |-> fc, stale |-> aborted]]
               /\ layer' = SetLayer(layer, i, fc, mounts[loads[i].mount].alive, aborted)
    /\ UNCHANGED <<now, ticks, ctl, abortRef, mounts, mounted, fetcher, httpCount, kvars>>
    /\ UNCHANGED <<bvars, pvars, xvars>>

\* the promise of a custom fetcher settles, whether or not its signal was aborted
CustomSettle ==
  \E i \in 1..Len(loads) :
    /\ loads[i].via = "custom" /\ loads[i].st = "fetch"
    /\ \/ /\ loads' = [loads EXCEPT ![i] = [@ EXCEPT !.st = "rejected", !.cause = "custom",
                                                   !.logged = LogsError(ErrorName("custom"))]]
          /\ UNCHANGED layer
       \/ \E fc \in SeqsUpTo(Rows, MaxRows) :
            /\ loads' = [loads EXCEPT ![i] = [@ EXCEPT !.st = "resolved",
                  !.logged = LogsAfterResolve(mounts[loads[i].mount].alive)]]
            /\ layer' = SetLayer(layer, i, fc, mounts[loads[i].mount].alive, ctl[loads[i].ctl])
    /\ UNCHANGED <<cvars, ctl, abortRef, mounts, mounted, fetcher, httpCount, kvars>>
    /\ UNCHANGED <<bvars, pvars, xvars>>

\* the clock
Tick ==
  /\ ticks < MaxTicks
  /\ \E d \in {1, TTL_MS} : now' = now + d
  /\ ticks' = ticks + 1
  /\ UNCHANGED <<cache, lastSet, mvars, kvars>>
  /\ UNCHANGED <<bvars, pvars, xvars>>

Positions == {1, 2}          \* places on the map a click can land on

\* what the selected-point source shows after the point query of click c resolved
\* with m: nothing changes for m = null; a removed map throws into the catch
SetSelection(sel, c, m, alive) ==
  IF m = "value" /\ alive
  THEN [click |-> c, hasValue |-> TRUE, popups |-> Append(sel.popups, c)]
  ELSE sel

\* a click on the map runs every registered click listener. onClick: put the
\* bare marker at the clicked place, then await fetchAtPoint (called without a
\* signal)
Click ==
  \E m \in 1..Len(mounts), pos \in Positions :
    LET n == Cardinality(mounts[m].listeners)
    IN /\ mounts[m].alive /\ n >= 1
       /\ Len(clicks) + n <= MaxClicks
       /\ clicks' = clicks \o [j \in 1..n |->
                                [mount |-> m, pos |-> pos, st |-> "fetch",
                                 cause |-> "", status |-> 0, m |-> ""]]
       /\ selection' = [selection EXCEPT !.click = Len(clicks) + n, !.hasValue = FALSE]
       /\ httpCount' = httpCount + n
    /\ UNCHANGED <<cvars, ctl, abortRef, mounts, mounted, fetcher, loads, layer>>
    /\ UNCHANGED <<bvars, pvars, xvars>>

\* the point query of a click settles and the rest of onClick runs
PointSettle ==
  \E c \in 1..Len(clicks) :
    /\ clicks[c].st = "fetch"
    /\ \E kind \in {"net", "res", "json"}, status \in HttpStatuses, body \in Bodies :
         /\ kind = "net" => status = 200
         /\ (kind # "res" \/ ~ResOk(status)) => body = [shape |-> "other", rows |-> <<>>]
         /\ IF FetchEnd(kind, status) = "rejected"
            THEN /\ clicks' = [clicks EXCEPT ![c] =
                       [@ EXCEPT !.st = "rejected", !.cause = FetchCause(kind, status),
                                  !.status = IF kind = "net" THEN 0 ELSE status]]
                 /\ UNCHANGED selection
            ELSE /\ clicks' = [clicks EXCEPT ![c] =
                       [@ EXCEPT !.st = "resolved", !.status = status,
                                  !.m = fetchAtPointResult(body)]]
                 /\ selection' = SetSelection(selection, c, fetchAtPointResult(body),
                                              mounts[clicks[c].mount].alive)
    /\ UNCHANGED <<cvars, mvars>>
    /\ UNCHANGED <<bvars, pvars, xvars>>

\* the map over its lifetime: viewport loads, remounts, either fetcher
ViewNext ==
  \/ Boot
  \/ MoveEnd
  \/ TimerFire
  \/ EffectRerun
  \/ Unmount
  \/ HttpRespond
  \/ BodyArrives
  \/ CustomSettle

\* the state after the router is loaded and MapView has mounted
PIdle ==
  /\ pin = <<>>
  /\ pout = <<>>
  /\ pdone = FALSE

Init ==
  /\ BInit
  /\ VInit
  /\ PIdle

SpecView == Init /\ [][ViewNext]_vars

\* fetchMeasurements and its cache as time passes
CacheNext ==
  \/ Boot
  \/ MoveEnd
  \/ TimerFire
  \/ HttpRespond
  \/ BodyArrives
  \/ Tick

\* the same, MapView being used with its default fetcher
InitDefault ==
  /\ BInit
  /\ VInitWith({"default"})
  /\ PIdle

SpecCache == InitDefault /\ [][CacheNext]_vars

\* viewport loads together with point clicks
ClickNext ==
  \/ Boot
  \/ MoveEnd
  \/ TimerFire
  \/ HttpRespond
  \/ BodyArrives
  \/ Click
  \/ PointSettle

SpecClick == InitDefault /\ [][ClickNext]_vars

\* the click handler over the runs of the effect
HandlerNext ==
  \/ Boot
  \/ MoveEnd
  \/ EffectRerun
  \/ Unmount
  \/ Click
  \/ PointSettle

SpecHandlers == InitDefault /\ [][HandlerNext]_vars

(***************************************************************************)
(* components/SubscriptionModal.jsx                                        *)
(***************************************************************************)
Outside == {"opener", "body"}     \* elements of the page that can have the focus
Inside == {"dialog", "close", "email"}     \* elements of the dialog

\* variant: the class and the attributes are left in place
UnmarkNot(m) == m

\* document.body.classList.remove("modal-open") and, when #root exists,
\* removeAttribute("aria-hidden") and removeAttribute("inert")
Unmark(m) ==
  [m EXCEPT !.modalOpen = FALSE,
            !.ariaHidden = IF m.hasRoot THEN FALSE ELSE @,
            !.inert = IF m.hasRoot THEN FALSE ELSE @]

\* the first effect (lines 35-108): nothing when closed; when open, remember
\* the active element, mark body and #root, set the focus timer and the
\* keydown listener
OpenEffect(m) ==
  IF ~m.isOpen THEN m
  ELSE [m EXCEPT !.lastActive = m.active,
                 !.modalOpen = TRUE,
                 !.ariaHidden = IF m.hasRoot THEN TRUE ELSE @,
                 !.inert = IF m.hasRoot THEN TRUE ELSE @,
                 !.focusTimer = TRUE,
                 !.keydown = TRUE]

\* the cleanup the first effect returned when it ran with isOpen (104-107)
OpenCleanup(m) ==
  IF ~m.isOpen THEN m ELSE [m EXCEPT !.focusTimer = FALSE, !.keydown = FALSE]

\* the second effect (111-118) and its cleanup (119-125)
CloseEffect(m) == IF ~m.isOpen THEN Unmark(m) ELSE m
CloseCleanup(m) == Unmark(m)

\* a commit in which isOpen changed: the cleanups of both effects with the old
\* props, then both effects with the new ones
Rerender(m, open) ==
  CloseEffect(OpenEffect([CloseCleanup(OpenCleanup(m)) EXCEPT !.isOpen = open]))

ModalMount ==
  /\ ~modal.mounted
  /\ \E open \in BOOLEAN, root \in BOOLEAN, el \in Outside :
       modal' = CloseEffect(OpenEffect([NoModal EXCEPT !.mounted = TRUE, !.isOpen = open,
                                                      !.hasRoot = root, !.active = el]))
  /\ UNCHANGED <<bvars, pvars, cvars, mvars, kvars, clickHandlerRef, dvars, form>>

\* the parent sets isOpen: the user opened the modal from an element of the page
ModalOpen ==
  /\ modal.mounted /\ ~modal.isOpen
  /\ \E el \in Outside : modal' = Rerender([modal EXCEPT !.active = el], TRUE)
  /\ UNCHANGED <<bvars, pvars, cvars, mvars, kvars, clickHandlerRef, dvars, form>>

\* handleClose, from the overlay, the close button or Escape: onClose(), and a
\* timer that gives the focus back
HandleClose ==
  /\ modal.mounted /\ modal.isOpen
  /\ modal' = [Rerender(modal, FALSE) EXCEPT !.restoreTimer = TRUE]
  /\ UNCHANGED <<bvars, pvars, cvars, mvars, kvars, clickHandlerRef, dvars, form>>

\* the parent closes the modal itself
ModalClose ==
  /\ modal.mounted /\ modal.isOpen
  /\ modal' = Rerender(modal, FALSE)
  /\ UNCHANGED <<bvars, pvars, cvars, mvars, kvars, clickHandlerRef, dvars, form>>

\* the focus timer of the first effect: initialFocusRef is never attached, so
\* the dialog gets the focus
FocusTimer ==
  /\ modal.focusTimer
  /\ modal' = [modal EXCEPT !.focusTimer = FALSE, !.active = "dialog"]
  /\ UNCHANGED <<bvars, pvars, cvars, mvars, kvars, clickHandlerRef, dvars, form>>

\* the timer of handleClose
RestoreFocus ==
  /\ modal.restoreTimer
  /\ modal' = [modal EXCEPT !.restoreTimer = FALSE,
                            !.active = IF modal.lastActive = "" THEN @ ELSE modal.lastActive]
  /\ UNCHANGED <<bvars, pvars, cvars, mvars, kvars, clickHandlerRef, dvars, form>>

\* Tab or Shift+Tab while the keydown listener is there: the focus stays inside
TabKey ==
  /\ modal.keydown
  /\ \E el \in Inside : modal' = [modal EXCEPT !.active = el]
  /\ UNCHANGED <<bvars, pvars, cvars, mvars, kvars, clickHandlerRef, dvars, form>>

\* unmount: the cleanups of both effects
ModalUnmount ==
  /\ modal.mounted
  /\ modal' = [CloseCleanup(OpenCleanup(modal)) EXCEPT !.mounted = FALSE, !.isOpen = FALSE]
  /\ UNCHANGED <<bvars, pvars, cvars, mvars, kvars, clickHandlerRef, dvars, form>>

ModalNext ==
  \/ ModalMount
  \/ ModalOpen
  \/ HandleClose
  \/ ModalClose
  \/ FocusTimer
  \/ RestoreFocus
  \/ TabKey
  \/ ModalUnmount

SpecModal == InitDefault /\ [][ModalNext]_vars

(***************************************************************************)
(* api.js: fetchMeasurements called by callers that each bring their own   *)
(* signal, so that calls for one key overlap                               *)
(***************************************************************************)
\* fetchMeasurements({bbox, pollutant, signal}) up to its first await
ApiCall ==
  \E k \in CacheKeys :
    LET got == getCache(cache, k, now)
        base == [mount |-> 0, ctl |-> 0, key |-> k, via |-> "direct", st |-> "fetch",
                 cause |-> "", status |-> 0, fc |-> EmptyFC, logged |-> FALSE]
    IN /\ Len(loads) < MaxLoads
       /\ IF got.hit
          THEN /\ loads' = Append(loads, [base EXCEPT !.st = "resolved", !.fc = got.value])
               /\ UNCHANGED <<cache, httpCount>>
          ELSE /\ loads' = Append(loads, base)
               /\ cache' = got.cache
               /\ httpCount' = httpCount + 1
       /\ UNCHANGED <<now, ticks, lastSet, ctl, abortRef, mounts, mounted, fetcher, layer, kvars>>
       /\ UNCHANGED <<bvars, pvars, xvars>>

\* fetch() and res.json() of such a call settle: it throws, or it normalizes the
\* body, stores the result under its key and returns it
ApiSettle ==
  \E i \in 1..Len(loads) :
    /\ loads[i].via = "direct" /\ loads[i].st = "fetch"
    /\ \E kind \in {"net", "res", "json"}, status \in HttpStatuses, body \in Bodies :
         /\ kind = "net" => status = 200
         /\ (kind # "res" \/ ~ResOk(status)) => body = [shape |-> "other", rows |-> <<>>]
         /\ IF FetchEnd(kind, status) = "rejected"
            THEN /\ loads' = [loads EXCEPT ![i] =
                       [@ EXCEPT !.st = "rejected", !.cause = FetchCause(kind, status),
                                  !.status = IF kind = "net" THEN 0 ELSE status]]
                 /\ UNCHANGED <<cache, lastSet>>
            ELSE LET fc == passthroughOrTempoToGeoJSON(body)
                 IN /\ loads' = [loads EXCEPT ![i] =
                          [@ EXCEPT !.st = "resolved", !.status = status, !.fc = fc]]
                    /\ cache' = setCache(cache, loads[i].key, fc, now)
                    /\ lastSet' = [lastSet EXCEPT ![loads[i].key] =
                          [any |-> TRUE, at |-> now, value |-> fc, stale |-> FALSE]]
    /\ UNCHANGED <<now, ticks, ctl, abortRef, mounts, mounted, fetcher, layer, httpCount, kvars>>
    /\ UNCHANGED <<bvars, pvars, xvars>>

ConcurrentNext ==
  \/ ApiCall
  \/ ApiSettle

SpecConcurrent == InitDefault /\ [][ConcurrentNext]_vars

(***************************************************************************)
(* MapView.jsx: debounce(loadForCurrentView, 400) with the clock           *)
(***************************************************************************)
DEBOUNCE_MS == 400

\* variant: the pending timer is not cleared
debounceNoClear(timers, t) == timers \cup {t + DEBOUNCE_MS}

\* clearTimeout(t); t = setTimeout(() => fn(...args), ms), called at time t
debounce(timers, t) == {t + DEBOUNCE_MS}

Gaps == {150, 250, DEBOUNCE_MS}     \* ms the clock advances by

\* map.on("moveend", debounced) at the current time; a timer that is due runs
\* before an event that comes later
DebouncedMoveEnd ==
  \E m \in 1..Len(mounts), v \in Views :
    /\ mounts[m].alive
    /\ Len(loads) < MaxLoads
    /\ Cardinality({i \in 1..Len(dlog) : dlog[i].ev = "moveend"}) < MaxMoves
    /\ \A t \in due : now < t
    /\ mounts' = [mounts EXCEPT ![m] = [@ EXCEPT !.view = v, !.timer = TRUE]]
    /\ due' = debounce(due, now)
    /\ dlog' = Append(dlog, [ev |-> "moveend", at |-> now])
    /\ UNCHANGED <<cvars, ctl, abortRef, mounted, fetcher, loads, layer, httpCount, kvars>>
    /\ UNCHANGED <<bvars, pvars, clickHandlerRef, modal, form>>

\* a timer of debounce reaches its deadline and calls loadForCurrentView
DebounceFire ==
  \E m \in 1..Len(mounts), t \in due :
    /\ mounts[m].timer
    /\ now >= t
    /\ LoadForCurrentView(m)
    /\ due' = due \ {t}
    /\ mounts' = SetMount(m, "timer", due' # {})
    /\ dlog' = Append(dlog, [ev |-> "load", at |-> now])
    /\ UNCHANGED kvars
    /\ UNCHANGED <<bvars, pvars, clickHandlerRef, modal, form>>

\* time passes, up to the next deadline
Elapse ==
  \E d \in Gaps :
    /\ ticks < MaxTicks
    /\ \A t \in due : now + d <= t
    /\ now' = now + d
    /\ ticks' = ticks + 1
    /\ UNCHANGED <<cache, lastSet, mvars, kvars, xvars>>
    /\ UNCHANGED <<bvars, pvars>>

DebounceNext ==
  \/ Boot
  \/ DebouncedMoveEnd
  \/ DebounceFire
  \/ Elapse
  \/ HttpRespond
  \/ BodyArrives

SpecDebounce == InitDefault /\ [][DebounceNext]_vars

BackendNext ==
  \/ Receive
  \/ Latest1
  \/ Latest2
  \/ Latest3
  \/ Normalized1
  \/ Normalized2
  \/ Respond

SpecBackend == InitDefault /\ [][BackendNext]_vars

(***************************************************************************)
(* The browser's view of a backend response                                *)
(***************************************************************************)
\* the JSON body of a backend response as api.js reads it: /normalized sends
\* {source, results: [{lat, lon, ...}]} (objects, not 6-tuples), /latest sends
\* {source, query, data}
BodyOfResponse(endpoint, resp) ==
  IF endpoint = "normalized"
  THEN [shape |-> "results", rows |-> [i \in 1..Len(resp.results) |-> [tuple6 |-> FALSE]]]
  ELSE [shape |-> "other", rows |-> <<>>]

\* fetchAtPoint on a backend response: reject on a non-2xx status, else the
\* first feature or null
fetchAtPoint(endpoint, resp) ==
  IF FetchEnd("res", resp.status) = "rejected" THEN "rejected"
  ELSE fetchAtPointResult(BodyOfResponse(endpoint, resp))

(***************************************************************************)
(* /latest, attempt 3, on its own: the compact answer built from the       *)
(* hourly object of an Open-Meteo reply                                    *)
(***************************************************************************)
LInit ==
  /\ BInit
  /\ VInitWith({"default"})
  /\ pin \in Hourlies
  /\ pout = <<>>
  /\ pdone = FALSE

\* part_001 lines 70-82: out, from hourly
CompactOpenMeteo ==
  /\ ~pdone
  /\ pout' = LatestOpenMeteoOut(pin)
  /\ pdone' = TRUE
  /\ UNCHANGED <<pin, bvars, vvars>>

CompactNext ==
  \/ CompactOpenMeteo

SpecCompact == LInit /\ [][CompactNext]_vars

(***************************************************************************)
(* Cache key: bboxFromMap and cacheKey of lib/api.js.  A raw bound of the  *)
(* map is held in units of 1e-4 degree, a rounded one in units of 1e-3     *)
(* degree; a string is the sequence of its characters.                     *)
(***************************************************************************)
RawCoords == {-642004, -641996, 15}

Abs(x) == IF x < 0 THEN -x ELSE x

\* +x.toFixed(3): the nearest multiple of 0.001, a tie going away from zero
ToFixed3(x) == IF x < 0 THEN -((-x + 5) \div 10) ELSE (x + 5) \div 10

bboxFromMap(raw) == [i \in 1..4 |-> ToFixed3(raw[i])]

DigitChars == <<"0", "1", "2", "3", "4", "5", "6", "7", "8", "9">>

RECURSIVE Digits(_)
Digits(n) ==
  IF n < 10 THEN <<DigitChars[n + 1]>>
  ELSE Digits(n \div 10) \o <<DigitChars[(n % 10) + 1]>>

\* the decimals of f thousandths, without trailing zeros
Fraction(f) ==
  IF f % 10 # 0
  THEN <<DigitChars[(f \div 100) + 1], DigitChars[((f \div 10) % 10) + 1], DigitChars[(f % 10) + 1]>>
  ELSE IF (f \div 10) % 10 # 0
  THEN <<DigitChars[(f \div 100) + 1], DigitChars[((f \div 10) % 10) + 1]>>
  ELSE <<DigitChars[(f \div 100) + 1]>>

\* String(m) of the number m / 1000, as Array.prototype.join renders it
NumberToString(m) ==
  (IF m < 0 THEN <<"-">> ELSE <<>>)
    \o Digits(Abs(m) \div 1000)
    \o (IF Abs(m) % 1000 = 0 THEN <<>> ELSE <<".">> \o Fraction(Abs(m) % 1000))

RECURSIVE Join(_, _)
Join(parts, sep) ==
  IF Len(parts) = 0 THEN <<>>
  ELSE IF Len(parts) = 1 THEN parts[1]
  ELSE parts[1] \o <<sep>> \o Join(Tail(parts), sep)

\* variant: the pollutant is left out of the key
cacheKeyTextNoPollutant(pollutant, bbox) ==
  <<":">> \o Join([i \in 1..4 |-> NumberToString(bbox[i])], ",")

\* `${pollutant}:${bbox.join(",")}`
cacheKeyText(pollutant, bbox) ==
  <<pollutant, ":">> \o Join([i \in 1..4 |-> NumberToString(bbox[i])], ",")

KeyQueries == [pollutant : Pollutants, bounds : [1..4 -> RawCoords]]

KInit ==
  /\ BInit
  /\ VInitWith({"default"})
  /\ pin \in [a : KeyQueries, b : KeyQueries]
  /\ pout = <<>>
  /\ pdone = FALSE

\* the keys fetchMeasurements builds for the two viewports
MakeKeys ==
  /\ ~pdone
  /\ pout' = [a |-> cacheKeyText(pin.a.pollutant, bboxFromMap(pin.a.bounds)),
              b |-> cacheKeyText(pin.b.pollutant, bboxFromMap(pin.b.bounds))]
  /\ pdone' = TRUE
  /\ UNCHANGED <<pin, bvars, vvars>>

KeyNext ==
  \/ MakeKeys

SpecKey == KInit /\ [][KeyNext]_vars

(***************************************************************************)
(* Normalizer.  A JSON value is a record [t, n]: a number n, a string that *)
(* reads as the number n ("15.5"), as n with a decimal comma ("15,5"), as  *)
(* n followed by text ("12abc"), a string that is no number, null, or a    *)
(* missing property (undefined).  Numbers are held in tenths.  NaN is what *)
(* Number() gives for what is no number; a scaled number is n times        *)
(* MOL_PER_M2_PER_MOLEC_CM2 = 1e4 / 6.02214076e23.                         *)
(***************************************************************************)
MaxBatch == 2      \* records in one body given to a normalizer

JNum(n) == [t |-> "num", n |-> n]
JNumStr(n) == [t |-> "numstr", n |-> n]
JComma(n) == [t |-> "comma", n |-> n]
JPrefixed(n) == [t |-> "prefixed", n |-> n]
JText == [t |-> "text", n |-> 0]
JNull == [t |-> "null", n |-> 0]
Absent == [t |-> "undefined", n |-> 0]
NaN == [t |-> "nan", n |-> 0]
Scaled(n) == [t |-> "scaled", n |-> n]

\* Number.isFinite(v): no coercion, only a number that is not NaN
IsFinite(v) == v.t \in {"num", "scaled"}

\* Number(v)
JsNumber(v) ==
  CASE v.t \in {"num", "numstr"} -> JNum(v.n)
    [] v.t = "null" -> JNum(0)
    [] OTHER -> NaN

\* String(v).replace(",", "."): the first comma becomes a point
ReplaceComma(v) == IF v.t = "comma" THEN JNumStr(v.n) ELSE v

\* Number.parseFloat(s): the longest numeric prefix, NaN when there is none
ParseFloat(v) ==
  CASE v.t \in {"num", "numstr", "prefixed"} -> JNum(v.n)
    [] OTHER -> NaN

toNumberSafe(v) ==
  IF IsFinite(ParseFloat(ReplaceComma(v))) THEN ParseFloat(ReplaceComma(v)) ELSE JNull

\* value * MOL_PER_M2_PER_MOLEC_CM2: null counts as 0 in a product
TimesMolPerM2(v) ==
  CASE v.t = "num" -> Scaled(v.n)
    [] v.t = "null" -> JNum(0)
    [] OTHER -> NaN

toLowerCase(p) ==
  CASE p = "NO2" -> "no2"
    [] p = "SO2" -> "so2"
    [] p = "O3" -> "o3"
    [] p = "HCHO" -> "hcho"
    [] p = "SA" -> "sa"
    [] OTHER -> p

toBackendParam(p) == toLowerCase(p)

\* variant: the pollutant is compared as it came, without lower-casing
normalizeValueAndUnitCased(parameter, value, unit) ==
  IF unit = "molecules/cm^2" /\ parameter \in {"no2", "so2", "hcho"}
  THEN [value |-> TimesMolPerM2(value), unit |-> "mol/m²"]
  ELSE [value |-> value, unit |-> unit]

normalizeValueAndUnit(parameter, value, unit) ==
  IF unit = "molecules/cm^2" /\ toLowerCase(parameter) \in {"no2", "so2", "hcho"}
  THEN [value |-> TimesMolPerM2(value), unit |-> "mol/m²"]
  ELSE [value |-> value, unit |-> unit]

Feature(lon, lat, parameter, value, unit) ==
  [coordinates |-> <<lon, lat>>, parameter |-> parameter, value |-> value, unit |-> unit]

\* a row of data.results: an array [lat, lon, parameter, value, unit, datetime],
\* or something that is no array of six or more (arity6 = FALSE)
Row(arity6, lat, lon, parameter, value, unit) ==
  [arity6 |-> arity6, lat |-> lat, lon |-> lon, parameter |-> parameter,
   value |-> value, unit |-> unit]

tempoRowToFeature(r) ==
  LET conv == normalizeValueAndUnit(r.parameter, toNumberSafe(r.value), r.unit)
  IN Feature(JsNumber(r.lon), JsNumber(r.lat), toBackendParam(r.parameter),
             conv.value, conv.unit)

KeptRows(rows) == SelectSeq(rows, LAMBDA r : r.arity6)

tempoRowsToFeatures(rows) ==
  [i \in 1..Len(KeptRows(rows)) |-> tempoRowToFeature(KeptRows(rows)[i])]

\* a body with a features array is passed on as it is
passthroughOrTempoFeatures(shape, rows) ==
  IF shape = "features" THEN rows ELSE tempoRowsToFeatures(rows)

(***************************************************************************)
(* Pollutant aliases: constants/pollutants.js and the table of             *)
(* src/unnamed/part_020.  An object literal is the sequence of its         *)
(* entries <<key, value>>; a later entry of a key replaces an earlier one. *)
(***************************************************************************)
TEMPO_POLLUTANTS ==
  << [id |-> "no2", apiId |-> "NO2", unit |-> "molecules/cm²"],
     [id |-> "so2", apiId |-> "SO2", unit |-> "molecules/cm²"],
     [id |-> "o3", apiId |-> "O3", unit |-> "DU"],
     [id |-> "hcho", apiId |-> "HCHO", unit |-> "molecules/cm²"] >>

UI_TO_API == [i \in 1..Len(TEMPO_POLLUTANTS) |-> <<TEMPO_POLLUTANTS[i].id, TEMPO_POLLUTANTS[i].apiId>>]

API_TO_UI == [i \in 1..Len(TEMPO_POLLUTANTS) |-> <<TEMPO_POLLUTANTS[i].apiId, TEMPO_POLLUTANTS[i].id>>]

Part020_UI_TO_API ==
  << <<"pm25", "pm2_5">>, <<"o3", "ozone">>, <<"no2", "nitrogen_dioxide">>,
     <<"so2", "sulphur_dioxide">>, <<"co", "carbon_monoxide">>, <<"nh3", "ammonia">> >>

\* variant: the entries are copied without exchanging key and value
SwappedNot(entries) == entries

\* Object.fromEntries(Object.entries(o).map(([k, v]) => [v, k]))
Swapped(entries) == [i \in 1..Len(entries) |-> <<entries[i][2], entries[i][1]>>]

Part020_API_TO_UI == Swapped(Part020_UI_TO_API)

HasKey(obj, k) == \E i \in 1..Len(obj) : obj[i][1] = k

GetKey(obj, k) ==
  obj[CHOOSE i \in 1..Len(obj) :
        /\ obj[i][1] = k
        /\ \A j \in 1..Len(obj) : obj[j][1] = k => j <= i][2]

AliasTables == {"pollutants.js", "part_020"}

UiToApi(tab) == IF tab = "part_020" THEN Part020_UI_TO_API ELSE UI_TO_API

ApiToUi(tab) == IF tab = "part_020" THEN Part020_API_TO_UI ELSE API_TO_UI

\* UI_TO_API[p] || p
toApiParam(tab, p) == IF HasKey(UiToApi(tab), p) THEN GetKey(UiToApi(tab), p) ELSE p

\* API_TO_UI[p] || p
toUiParam(tab, p) == IF HasKey(ApiToUi(tab), p) THEN GetKey(ApiToUi(tab), p) ELSE p

Identifiers ==
  {"no2", "so2", "o3", "hcho", "NO2", "SO2", "O3", "HCHO",
   "pm25", "co", "nh3", "pm2_5", "ozone", "nitrogen_dioxide", "sulphur_dioxide",
   "carbon_monoxide", "ammonia", "pm10", "No2", ""}

AInit ==
  /\ BInit
  /\ VInitWith({"default"})
  /\ pin \in [table : AliasTables, p : Identifiers, q : Identifiers]
  /\ pout = <<>>
  /\ pdone = FALSE

\* both mappings applied to two identifiers
MapAliases ==
  /\ ~pdone
  /\ pout' = [api |-> toApiParam(pin.table, pin.p),
              back |-> toUiParam(pin.table, toApiParam(pin.table, pin.p)),
              ui |-> toUiParam(pin.table, pin.p),
              apiQ |-> toApiParam(pin.table, pin.q)]
  /\ pdone' = TRUE
  /\ UNCHANGED <<pin, bvars, vvars>>

AliasNext ==
  \/ MapAliases

SpecAlias == AInit /\ [][AliasNext]_vars

(***************************************************************************)
(* Normalizers of the earlier lib/api.js: src/unnamed/part_021             *)
(* (normalizeFeatureCollection) and src/unnamed/part_020.  A string        *)
(* property is [t |-> "str", s]; a raw record is an object or null.        *)
(***************************************************************************)
JStr(s) == [t |-> "str", n |-> 0, s |-> s]

IsNullish(v) == v.t \in {"null", "undefined"}

\* a ?? b ?? ... : the first operand that is neither null nor undefined,
\* the last operand when there is none
RECURSIVE Coalesce(_)
Coalesce(vs) ==
  IF Len(vs) = 1 \/ ~IsNullish(vs[1]) THEN vs[1] ELSE Coalesce(Tail(vs))

BlankProps ==
  [t |-> "object",
   parameter |-> Absent, pollutant |-> Absent, species |-> Absent, product |-> Absent,
   value |-> Absent, measurement |-> Absent, average |-> Absent, avg |-> Absent,
   mean |-> Absent, unit |-> Absent, units |-> Absent, unit_of_measurement |-> Absent]

Props(parameter, value, unit) ==
  [BlankProps EXCEPT !.parameter = parameter, !.value = value, !.unit = unit]

NoGeometry == [type |-> "none", coordinates |-> <<>>]

PointGeometry(lon, lat) == [type |-> "Point", coordinates |-> <<lon, lat>>]

BlankObject ==
  [t |-> "object", geometry |-> NoGeometry,
   lon |-> Absent, longitude |-> Absent, x |-> Absent,
   lat |-> Absent, latitude |-> Absent, y |-> Absent,
   properties |-> Absent, own |-> BlankProps]

\* a flat record {lat, lon, parameter, value, unit}
FlatObject(lat, lon, parameter, value, unit) ==
  [BlankObject EXCEPT !.lat = lat, !.lon = lon, !.own = Props(parameter, value, unit)]

\* a GeoJSON Feature {geometry, properties}
FeatureObject(geometry, parameter, value, unit) ==
  [BlankObject EXCEPT !.geometry = geometry, !.properties = Props(parameter, value, unit)]

ensurePointGeometry(feature) ==
  IF /\ feature.geometry.type = "Point"
     /\ Len(feature.geometry.coordinates) >= 2
     /\ IsFinite(feature.geometry.coordinates[1])
     /\ IsFinite(feature.geometry.coordinates[2])
  THEN PointGeometry(feature.geometry.coordinates[1], feature.geometry.coordinates[2])
  ELSE NoGeometry

NoFeature == [t |-> "null"]

normalizeFeature(feature, fallbackPollutant) ==
  IF feature.t = "null" THEN NoFeature
  ELSE
    LET given == ensurePointGeometry(feature)
        lon == toNumberSafe(Coalesce(<<feature.lon, feature.longitude, feature.x>>))
        lat == toNumberSafe(Coalesce(<<feature.lat, feature.latitude, feature.y>>))
        srcProps == IF IsNullish(feature.properties) THEN feature.own ELSE feature.properties
        parameterRaw == Coalesce(<<srcProps.parameter, srcProps.pollutant, srcProps.species,
                                   srcProps.product, JStr(fallbackPollutant)>>)
        valueRaw == Coalesce(<<srcProps.value, srcProps.measurement, srcProps.average,
                               srcProps.avg, srcProps.mean, JNull>>)
        unit == Coalesce(<<srcProps.unit, srcProps.units, srcProps.unit_of_measurement, JStr("")>>)
    IN IF given.type # "Point" /\ (lat.t = "null" \/ lon.t = "null") THEN NoFeature
       ELSE [t |-> "feature",
             coordinates |-> IF given.type = "Point" THEN given.coordinates ELSE <<lon, lat>>,
             parameter |-> toUiParam("pollutants.js", parameterRaw.s),
             value |-> toNumberSafe(valueRaw),
             unit |-> unit.s]

\* raw.map(normalizeFeature).filter(Boolean)
normalizeFeatureCollection(rows, pollutant) ==
  LET mapped == [i \in 1..Len(rows) |-> normalizeFeature(rows[i], pollutant)]
      kept == SelectSeq(mapped, LAMBDA f : f.t # "null")
  IN [i \in 1..Len(kept) |->
        Feature(kept[i].coordinates[1], kept[i].coordinates[2],
                kept[i].parameter, kept[i].value, kept[i].unit)]

\* part_020: the callback of results.map reads the undeclared name m, which
\* throws a ReferenceError on the first record
part020Features(rows) ==
  IF Len(rows) = 0 THEN [raised |-> FALSE, features |-> <<>>]
  ELSE [raised |-> TRUE, features |-> <<>>]

(***************************************************************************)
(* The bodies the normalizers are applied to                               *)
(***************************************************************************)
CoordRows ==
  {Row(a, lat, lon, "NO2", JNum(5), "DU") :
     a \in BOOLEAN,
     lat \in {JNum(-314), JText, JNull},
     lon \in {JNum(-642), JNumStr(-642), JComma(-642)}}

ValueRows ==
  {Row(TRUE, JNum(-314), JNum(-642), p, v, u) :
     p \in {"NO2", "so2", "HCHO", "O3"},
     v \in {JNum(5), JComma(155), JText, JNull},
     u \in {"molecules/cm^2", "molecules/cm²", "DU"}}

TupleRows == CoordRows \cup ValueRows \cup {Row(TRUE, JNum(-314), JNum(-642), "O3", JPrefixed(12), "DU")}

PassFeatures ==
  {Feature(JNum(-642), JNum(-314), "no2", JNum(5), "DU"),
   Feature(JText, JNull, "no2", JNum(5), "DU")}

FlatRecords ==
  {FlatObject(lat, lon, JStr(p), v, JStr("DU")) :
     lat \in {JNum(-314), JComma(-314), JText, JNull},
     lon \in {JNum(-642), JNumStr(-642)},
     p \in {"NO2", "o3"},
     v \in {JNum(5), JText}}

ObjectRecords ==
  FlatRecords \cup
  {[BlankObject EXCEPT !.latitude = JNum(-314), !.longitude = JNum(-642)],
   [BlankObject EXCEPT !.lat = JNull, !.y = JNum(-314), !.x = JComma(-642),
                       !.own = [BlankProps EXCEPT !.species = JStr("O3"), !.mean = JNum(5)]],
   FeatureObject(PointGeometry(JNum(-642), JNum(-314)), JStr("HCHO"), JComma(155), JStr("molecules/cm^2")),
   FeatureObject(PointGeometry(JNumStr(-642), JNum(-314)), JStr("NO2"), JNum(5), JStr("DU")),
   FeatureObject([type |-> "Polygon", coordinates |-> <<>>], JStr("NO2"), JNum(5), JStr("DU")),
   JNull}

Part020Records ==
  {FlatObject(lat, JNum(-642), JStr(p), JNum(5), JStr("DU")) :
     lat \in {JNum(-314), JText}, p \in {"no2", "pm2_5"}}

NormInputs ==
  [impl : {"api"}, shape : {"results"}, rows : SeqsUpTo(TupleRows, MaxBatch), pollutant : {DEFAULT_POLLUTANT}]
  \cup [impl : {"api"}, shape : {"features"}, rows : SeqsUpTo(PassFeatures, MaxBatch), pollutant : {DEFAULT_POLLUTANT}]
  \cup [impl : {"part_021"}, shape : {"results"}, rows : SeqsUpTo(ObjectRecords, MaxBatch), pollutant : {DEFAULT_POLLUTANT}]
  \cup [impl : {"part_020"}, shape : {"results"}, rows : SeqsUpTo(Part020Records, MaxBatch), pollutant : {DEFAULT_POLLUTANT}]

NInit ==
  /\ BInit
  /\ VInitWith({"default"})
  /\ pin \in NormInputs
  /\ pout = <<>>
  /\ pdone = FALSE

\* lib/api.js: passthroughOrTempoToGeoJSON(data)
NormalizeTempo ==
  /\ ~pdone
  /\ pin.impl = "api"
  /\ pout' = [raised |-> FALSE, features |-> passthroughOrTempoFeatures(pin.shape, pin.rows)]
  /\ pdone' = TRUE
  /\ UNCHANGED <<pin, bvars, vvars>>

\* part_021: normalizeFeatureCollection(data, {pollutant})
NormalizePart021 ==
  /\ ~pdone
  /\ pin.impl = "part_021"
  /\ pout' = [raised |-> FALSE, features |-> normalizeFeatureCollection(pin.rows, pin.pollutant)]
  /\ pdone' = TRUE
  /\ UNCHANGED <<pin, bvars, vvars>>

\* part_020: the features built inside fetchMeasurements
NormalizePart020 ==
  /\ ~pdone
  /\ pin.impl = "part_020"
  /\ pout' = part020Features(pin.rows)
  /\ pdone' = TRUE
  /\ UNCHANGED <<pin, bvars, vvars>>

NormalizeNext ==
  \/ NormalizeTempo
  \/ NormalizePart021
  \/ NormalizePart020

SpecNormalize == NInit /\ [][NormalizeNext]_vars

(***************************************************************************)
(* fetchMeasurements of lib/api.js: from the bounding box to the query.    *)
(* Degrees of the box are held in thousandths (bboxFromMap rounds to       *)
(* three decimals), the centre in units of 1e-5 degree as lat.toFixed(5)   *)
(* prints it, lengths in whole metres.  Math.cos is read from a table of   *)
(* thousandths by whole degree.                                            *)
(***************************************************************************)
RADIUS_CAP_M == 30000

CosMilliByDegree ==
  <<
     1000, 1000, 999, 999, 998, 996, 995, 993, 990, 988, 985, 982, 978,
     974, 970, 966, 961, 956, 951, 946, 940, 934, 927, 921, 914, 906,
     899, 891, 883, 875, 866, 857, 848, 839, 829, 819, 809, 799, 788,
     777, 766, 755, 743, 731, 719, 707, 695, 682, 669, 656, 643, 629,
     616, 602, 588, 574, 559, 545, 530, 515, 500, 485, 469, 454, 438,
     423, 407, 391, 375, 358, 342, 326, 309, 292, 276, 259, 242, 225,
     208, 191, 174, 156, 139, 122, 105, 87, 70, 52, 35, 17, 0
  >>

\* 1000 * Math.cos((lat * Math.PI) / 180) for a latitude in units of 1e-5 degree
CosMilli(lat5) == CosMilliByDegree[(Abs(lat5) \div 100000) + 1]

RECURSIVE ISqrtIn(_, _, _)
ISqrtIn(x, lo, hi) ==
  IF lo = hi THEN lo
  ELSE LET mid == (lo + hi + 1) \div 2
       IN IF mid * mid <= x THEN ISqrtIn(x, mid, hi) ELSE ISqrtIn(x, lo, mid - 1)

\* Math.round(Math.sqrt(x)) for 0 <= x < 2^31
RoundSqrt(x) ==
  LET r == ISqrtIn(x, 0, 46340)
  IN IF x - r * r > r THEN r + 1 ELSE r

\* Math.round(Math.min(Math.hypot(rx, ry), cap)), for cap <= 46340
MinHypot(rx, ry, cap) ==
  IF rx >= cap \/ ry >= cap THEN cap
  ELSE IF rx * rx >= cap * cap - ry * ry THEN cap
  ELSE RoundSqrt(rx * rx + ry * ry)

\* variant: the radius is capped at 40 km
RadiusOfCap40(bbox) ==
  LET lat5 == (bbox[2] + bbox[4]) * 50
      rx == (((Abs(bbox[3] - bbox[1]) * CosMilli(lat5)) \div 1000) * 111) \div 2
      ry == (Abs(bbox[4] - bbox[2]) * 111) \div 2
  IN MinHypot(rx, ry, 40000)

\* lines 103-109: the radius in metres of the circle sent for bbox = [w, s, e, n]
RadiusOf(bbox) ==
  LET lat5 == (bbox[2] + bbox[4]) * 50
      rx == (((Abs(bbox[3] - bbox[1]) * CosMilli(lat5)) \div 1000) * 111) \div 2
      ry == (Abs(bbox[4] - bbox[2]) * 111) \div 2
  IN MinHypot(rx, ry, RADIUS_CAP_M)

\* the search parameters of the URL fetchMeasurements requests
QueryOf(bbox, pollutant) ==
  LET base == [lat |-> (bbox[2] + bbox[4]) * 50,
               lon |-> (bbox[1] + bbox[3]) * 50,
               radius |-> RadiusOf(bbox),
               limit |-> "200",
               parameter |-> toBackendParam(pollutant),
               nonneg |-> "true",
               dropzero |-> "true",
               thin |-> "3"]
  IN IF toBackendParam(pollutant) \in {"no2", "hcho"}
     THEN [k \in DOMAIN base \cup {"min"} |-> IF k = "min" THEN "1e15" ELSE base[k]]
     ELSE base

BoxesOfMap ==
  {<<w, s, e, n>> :
     w \in {-64200, -64500, -168000},
     s \in {-31430, 5000, 59800},
     e \in {-64180, -64000, -52000},
     n \in {-31410, 60200, 83000}}

RInit ==
  /\ BInit
  /\ VInitWith({"default"})
  /\ pin \in [bbox : BoxesOfMap, pollutant : {"no2", "O3"}, disabled : BOOLEAN]
  /\ pout = <<>>
  /\ pdone = FALSE

\* fetchMeasurements up to the request: nothing is sent when VITE_DISABLE_TEMPO is "1"
BuildQuery ==
  /\ ~pdone
  /\ pout' = IF pin.disabled THEN [sent |-> FALSE, params |-> <<>>]
             ELSE [sent |-> TRUE, params |-> QueryOf(pin.bbox, pin.pollutant)]
  /\ pdone' = TRUE
  /\ UNCHANGED <<pin, bvars, vvars>>

RadiusNext ==
  \/ BuildQuery

SpecRadius == RInit /\ [][RadiusNext]_vars

(***************************************************************************)
(* components/SubscriptionForm.jsx: the debounced city search              *)
(***************************************************************************)
FormStates == {"", "US-CA", "US-TX"}
Texts == {"", "s", "sa", "sa ", "SA", "sp"}     \* what the city input can hold

\* String.prototype.trim and length, on the texts above
trim(x) == IF x = "sa " THEN "sa" ELSE x
TextLength(x) ==
  CASE x = "" -> 0
    [] x = "s" -> 1
    [] x = "sa " -> 3
    [] OTHER -> 2

\* `${formData.state}:${q.toLowerCase()}`
CityKey(state, q) == [state |-> state, q |-> toLowerCase(q)]

\* the search effect after a commit in which state or city changed: the cleanup
\* of the run before clears its timer; then nothing to search, or a new timer
\* whose callback keeps the state and the query of this render
SearchEffect(f) ==
  LET q == trim(f.city)
      cleared == [f EXCEPT !.timer = NoSearch]
  IN IF f.state = "" \/ TextLength(q) < 2
     THEN [cleared EXCEPT !.cities = NoCities]
     ELSE [cleared EXCEPT !.timer = [state |-> f.state, q |-> q]]

\* the user types in the city input
FormTypeCity ==
  /\ \E x \in Texts :
       /\ x # form.city
       /\ form' = SearchEffect([form EXCEPT !.city = x])
  /\ UNCHANGED <<bvars, pvars, cvars, mvars, kvars, clickHandlerRef, dvars, modal>>

\* the user picks a state: the reset effect empties the list and the city, and
\* the search effect runs for the new state, then for the emptied city
FormSelectState ==
  /\ \E st \in FormStates :
       /\ st # form.state
       /\ form' = SearchEffect([SearchEffect([form EXCEPT !.state = st, !.cities = NoCities])
                                  EXCEPT !.city = ""])
  /\ UNCHANGED <<bvars, pvars, cvars, mvars, kvars, clickHandlerRef, dvars, modal>>

\* the 350 ms timer fires: the cached list is shown, or searchCitiesInState is
\* called with the state and the query of the timer's render
SearchTimer ==
  /\ form.timer # NoSearch
  /\ LET key == CityKey(form.timer.state, form.timer.q)
     IN IF form.cityCache[key].present
        THEN form' = [form EXCEPT !.timer = NoSearch, !.cities = form.cityCache[key].value]
        ELSE /\ Len(form.reqs) < MaxSearches
             /\ form' = [form EXCEPT !.timer = NoSearch,
                            !.reqs = Append(@, [state |-> form.timer.state,
                                                q |-> form.timer.q, st |-> "flight"])]
  /\ UNCHANGED <<bvars, pvars, cvars, mvars, kvars, clickHandlerRef, dvars, modal>>

\* searchCitiesInState returns (an empty list after any error): setCities(list)
\* and cityCacheRef.current.set(cacheKey, list), with the key of the request
SearchRespond ==
  /\ \E i \in 1..Len(form.reqs), n \in {0, 1} :
       LET r == form.reqs[i]
           list == [from |-> [state |-> r.state, q |-> r.q], n |-> n]
       IN /\ r.st = "flight"
          /\ form' = [form EXCEPT !.reqs[i].st = "done",
                                  !.cities = list,
                                  !.cityCache[CityKey(r.state, r.q)] =
                                     [present |-> TRUE, value |-> list]]
  /\ UNCHANGED <<bvars, pvars, cvars, mvars, kvars, clickHandlerRef, dvars, modal>>

FormNext ==
  \/ FormTypeCity
  \/ FormSelectState
  \/ SearchTimer
  \/ SearchRespond

SpecForm == InitDefault /\ [][FormNext]_vars

(***************************************************************************)
(* Properties of the fallback chain (SpecBackend)                          *)
(***************************************************************************)
ChainLen == Len(Chain(req.endpoint))

NoMatch(oc) == oc.kind = "http" /\ oc.status \in {400, 404, 410, 422}
TransportOrServer(oc) == oc.kind = "net" \/ (oc.kind = "http" /\ oc.status >= 500)

\* the handler went on to source i + 1 after source i, or is about to
NextAttempted(i) ==
  \/ Len(calls) > i /\ calls[i + 1] = Chain(req.endpoint)[i + 1]
  \/ Len(calls) = i /\ bpc = AttemptPc(req.endpoint, i + 1) /\ response.kind # "error"

Exhausted ==
  /\ bpc = "done"
  /\ Len(calls) = ChainLen
  /\ \A i \in 1..Len(outcomes) : outcomes[i].usable = 0

\* C1: the sources are attempted in the fixed priority order, a later source
\* only after every earlier one was attempted and produced no usable record,
\* and the handler stops with the response of the first source that yields at
\* least one usable record (it does not stop earlier on a source without one).
C1_FallbackOrder ==
  /\ \A i \in 1..Len(calls) :
       /\ calls[i] = Chain(req.endpoint)[i]
       /\ \A j \in 1..(i - 1) : outcomes[j].usable = 0
  /\ (bpc = "done" /\ response.kind = "ok") =>
       \/ Len(response.results) >= 1 /\ response.source = calls[Len(calls)]
       \/ Len(calls) = ChainLen

\* C2: a source that fails with 400, 404, 410 or 422 and has a successor in the
\* chain does not abort the request: the next source is attempted.
C2_NoMatchFallsThrough ==
  \A i \in 1..Len(outcomes) :
    (NoMatch(outcomes[i]) /\ i < ChainLen) => NextAttempted(i)

C2_Witness ==
  /\ req.endpoint = "latest"
  /\ Len(calls) = 3
  /\ outcomes[1].kind = "http" /\ outcomes[1].status = 422
  /\ outcomes[2].kind = "http" /\ outcomes[2].status = 404

Ok2xx(st) == st >= 200 /\ st <= 299

\* a rejected call of the client has one of the four causes the code has
RejectedFor(x, aborted) ==
  \/ x.cause = "abort" /\ aborted
  \/ x.cause = "network" /\ x.status = 0
  \/ x.cause = "status" /\ ~Ok2xx(x.status)
  \/ x.cause = "json" /\ Ok2xx(x.status)

\* C5 as stated: fetchMeasurements and fetchAtPoint reject only for a transport
\* failure of the final source (the network failed or the backend answered 5xx).
C5_Original ==
  /\ \A i \in 1..Len(loads) :
       (loads[i].via = "http" /\ loads[i].st = "rejected") =>
         (loads[i].cause = "network" \/ (loads[i].cause = "status" /\ loads[i].status >= 500))
  /\ \A c \in 1..Len(clicks) :
       clicks[c].st = "rejected" =>
         (clicks[c].cause = "network" \/ (clicks[c].cause = "status" /\ clicks[c].status >= 500))

\* C5 amended: the two calls never reject on a 2xx answer with a JSON body,
\* data or not (empty collection / null); they reject on every non-2xx status,
\* on a network failure, on a body that is not JSON and on cancellation.
C5_RejectCauses ==
  /\ \A i \in 1..Len(loads) :
       loads[i].via = "http" =>
         /\ loads[i].st = "rejected" => RejectedFor(loads[i], ctl[loads[i].ctl])
         /\ (loads[i].status # 0 /\ ~Ok2xx(loads[i].status)) => loads[i].st = "rejected"
         /\ loads[i].st = "resolved" => Ok2xx(loads[i].status)
  /\ \A c \in 1..Len(clicks) :
       /\ clicks[c].st = "rejected" => RejectedFor(clicks[c], FALSE)
       /\ (clicks[c].status # 0 /\ ~Ok2xx(clicks[c].status)) => clicks[c].st = "rejected"
       /\ clicks[c].st = "resolved" => (Ok2xx(clicks[c].status) /\ clicks[c].m \in {"null", "value"})

C5_Witness ==
  /\ \E i \in 1..Len(loads) : loads[i].st = "rejected" /\ loads[i].cause = "abort"
  /\ \E c \in 1..Len(clicks) : clicks[c].st = "rejected" /\ clicks[c].status = 404
  /\ \E c \in 1..Len(clicks) : clicks[c].st = "resolved" /\ clicks[c].m = "null"

\* C6: a viewport fetch whose controller has been aborted never writes the
\* result cache and never sets the data of the displayed layer.
C6_NoStaleWrite ==
  /\ ~layer.stale
  /\ \A k \in CacheKeys : ~lastSet[k].stale

\* C7: every viewport load aborts the previous controller before it starts its
\* own fetch: once request k + 1 has started, the controllers of all earlier
\* requests are aborted.
C7_AbortBeforeStart ==
  \A i \in 1..Len(loads) : \A c \in 1..(loads[i].ctl - 1) : ctl[c]

C7_Witness ==
  /\ Len(loads) >= 2
  /\ loads[1].st = "rejected" /\ loads[1].cause = "abort"
  /\ loads[2].st = "fetch" /\ ~ctl[loads[2].ctl]

\* C8: point queries are never cancelled by a viewport reload, and the
\* selection marker always belongs to the most recent click.
C8_LatestClickShown ==
  /\ \A c \in 1..Len(clicks) : clicks[c].cause # "abort"
  /\ Len(clicks) > 0 => selection.click = Len(clicks)

\* C9: a fetchMeasurements call whose key has an unexpired cache entry returns
\* the cached collection, issues no HTTP request and leaves the cache alone.
C9_CacheHitNoHttp ==
  [][Len(loads') = Len(loads) + 1 =>
       LET l == loads'[Len(loads')]
       IN (cache[l.key].present /\ now <= cache[l.key].exp) =>
            /\ httpCount' = httpCount
            /\ l.st = "resolved"
            /\ l.fc = cache[l.key].value
            /\ cache' = cache]_vars

C9_Witness ==
  \E i \in 1..Len(loads) :
    /\ loads[i].via = "cache"
    /\ lastSet[loads[i].key].any
    /\ now = lastSet[loads[i].key].at + 120000

\* C10: set(k, v) stores the entry with expiry = time of the set + TTL, and
\* get(k) at any time before the TTL has elapsed since the last set(k, v)
\* returns v.
C10_RoundTrip ==
  \A k \in CacheKeys :
    lastSet[k].any =>
      /\ cache[k].present => cache[k].exp = lastSet[k].at + 120000
      /\ now < lastSet[k].at + 120000 =>
           /\ getCache(cache, k, now).hit
           /\ getCache(cache, k, now).value = lastSet[k].value

C10_Witness ==
  \E k \in CacheKeys :
    /\ lastSet[k].any
    /\ lastSet[k].value # EmptyFC
    /\ now > lastSet[k].at
    /\ now < lastSet[k].at + 120000

Expired(k) == lastSet[k].any /\ now > lastSet[k].at + 120000

\* C11: get(k) after the TTL has elapsed since the last set(k, ...) misses and
\* removes the entry; a removed entry stays away (every later get misses) until
\* the next set(k, ...).
C11_Expiry ==
  /\ [](\A k \in CacheKeys :
          Expired(k) =>
            /\ ~getCache(cache, k, now).hit
            /\ ~getCache(cache, k, now).cache[k].present
            /\ ~getCache(getCache(cache, k, now).cache, k, now).hit)
  /\ [][\A k \in CacheKeys :
          /\ (~cache[k].present /\ lastSet'[k] = lastSet[k]) => ~cache'[k].present
          /\ (Len(loads') = Len(loads) + 1 /\ loads'[Len(loads')].key = k /\ Expired(k)) =>
               (~cache'[k].present /\ loads'[Len(loads')].via = "http")]_vars

C11_Witness ==
  \E i \in 1..Len(loads) :
    /\ loads[i].via = "http" /\ loads[i].st = "fetch"
    /\ Expired(loads[i].key)
    /\ ~cache[loads[i].key].present

\* a viewport fetch completes successfully in this step
Completes(i) ==
  /\ i \in 1..Len(loads)
  /\ loads[i].st = "body"
  /\ loads'[i].st = "resolved"
  /\ Ok2xx(loads'[i].status)

\* a viewport fetch fails in this step (status, network, body, cancellation)
Fails(i) ==
  /\ i \in 1..Len(loads)
  /\ loads[i].st \in {"fetch", "body"}
  /\ loads'[i].st = "rejected"

\* C12 as stated: the cache changes only in a step in which a fetch completes
\* successfully, and then only by the entry of that fetch's key.
C12_Original ==
  [][cache' # cache =>
       \E i \in 1..Len(loads) :
         /\ Completes(i)
         /\ \A k \in CacheKeys : k # loads[i].key => cache'[k] = cache[k]]_vars

\* C12 amended: an entry is created only by a fetch for its key that completes
\* successfully; a failing fetch leaves the cache as it was; the only other
\* change is the lookup at the start of a call deleting the expired entry of
\* the call's own key.
C12_FrameEffect ==
  [][/\ \A k \in CacheKeys :
          cache'[k] # cache[k] =>
            \/ \E i \in 1..Len(loads) :
                 Completes(i) /\ loads[i].key = k /\ cache'[k].present
            \/ /\ Len(loads') = Len(loads) + 1
               /\ loads'[Len(loads')].key = k
               /\ cache[k].present /\ now > cache[k].exp
               /\ ~cache'[k].present
     /\ \A i \in 1..Len(loads) :
          (Fails(i) /\ Len(loads') = Len(loads)) => cache' = cache]_vars

C12_Witness ==
  \E i \in 1..Len(loads) :
    /\ loads[i].st = "rejected" /\ loads[i].cause = "status"
    /\ lastSet[loads[i].key].any
    /\ ~cache[loads[i].key].present

\* C20: within one request no source is queried twice, every query is one
\* attempt of the chain, and no source is queried after the first one that
\* brought a usable record.
C20_OneQueryPerSource ==
  /\ Len(calls) = Len(outcomes)
  /\ Len(calls) <= ChainLen
  /\ \A i, j \in 1..Len(calls) : calls[i] = calls[j] => i = j
  /\ \A i \in 1..Len(calls) : \A j \in 1..(i - 1) : outcomes[j].usable = 0

C20_Witness ==
  /\ req.endpoint = "normalized"
  /\ bpc = "done"
  /\ Len(calls) = 1
  /\ outcomes[1].usable >= 1
  /\ response.source = "openaq/measurements"

\* the multiple of 0.001 degree nearest to x / 10000 degree
NearestMilli(x) == IF x < 0 THEN -((5 - x) \div 10) ELSE (x + 5) \div 10

\* C13: two viewport queries get the same cache key exactly when they have the
\* same pollutant and their bounding boxes agree in all four coordinates after
\* rounding to three decimals.
C13_KeyOfRoundedQuery ==
  pdone =>
    (pout.a = pout.b <=>
       /\ pin.a.pollutant = pin.b.pollutant
       /\ \A i \in 1..4 : NearestMilli(pin.a.bounds[i]) = NearestMilli(pin.b.bounds[i]))

C13_Witness ==
  /\ pdone
  /\ pin.a.bounds # pin.b.bounds
  /\ pout.a = pout.b
  /\ pout.a = <<"no2", ":", "-", "6", "4", ".", "2", ",", "0", ".", "0", "0", "2", ",",
                "-", "6", "4", ".", "2", ",", "0", ".", "0", "0", "2">>

UiIds(tab) == {UiToApi(tab)[i][1] : i \in 1..Len(UiToApi(tab))}

ApiIds(tab) == {UiToApi(tab)[i][2] : i \in 1..Len(UiToApi(tab))}

\* C18: for every UI identifier p of the alias table toUiParam(toApiParam(p))
\* is p, and an identifier that is in neither column of the table passes
\* through both mappings unchanged.
C18_AliasRoundTrip ==
  pdone =>
    /\ pin.p \in UiIds(pin.table) => pout.back = pin.p
    /\ pin.p \notin (UiIds(pin.table) \cup ApiIds(pin.table)) =>
         (pout.api = pin.p /\ pout.ui = pin.p /\ pout.back = pin.p)

C18_Witness ==
  /\ pdone
  /\ pin.table = "part_020"
  /\ pin.p = "pm25"
  /\ pout.api = "pm2_5"
  /\ pout.back = "pm25"
  /\ pin.q = "pm10"
  /\ pout.apiQ = "pm10"

\* a coordinate the source gives as a number or as a numeric string, the
\* decimal comma included
Readable(v) == v.t \in {"num", "numstr", "comma"}

\* the longitude and latitude a raw record carries, in the form its normalizer reads
SourceLon(impl, shape, r) ==
  IF impl = "api" /\ shape = "features" THEN r.coordinates[1]
  ELSE IF impl = "api" THEN r.lon
  ELSE IF r.t = "null" THEN Absent
  ELSE IF r.geometry.type = "Point" /\ r.geometry.coordinates[1].t = "num"
          /\ r.geometry.coordinates[2].t = "num"
  THEN r.geometry.coordinates[1]
  ELSE IF r.lon.t \notin {"null", "undefined"} THEN r.lon
  ELSE IF r.longitude.t \notin {"null", "undefined"} THEN r.longitude
  ELSE r.x

SourceLat(impl, shape, r) ==
  IF impl = "api" /\ shape = "features" THEN r.coordinates[2]
  ELSE IF impl = "api" THEN r.lat
  ELSE IF r.t = "null" THEN Absent
  ELSE IF r.geometry.type = "Point" /\ r.geometry.coordinates[1].t = "num"
          /\ r.geometry.coordinates[2].t = "num"
  THEN r.geometry.coordinates[2]
  ELSE IF r.lat.t \notin {"null", "undefined"} THEN r.lat
  ELSE IF r.latitude.t \notin {"null", "undefined"} THEN r.latitude
  ELSE r.y

Locatable(impl, shape, r) ==
  Readable(SourceLon(impl, shape, r)) /\ Readable(SourceLat(impl, shape, r))

\* C14: every measurement a normalizer returns has two finite coordinates, the
\* output is shorter than the input by exactly the number of records whose
\* coordinates cannot be resolved, and nothing is raised.
C14_FiniteLocations ==
  (pdone /\ pin.impl \in {"api", "part_021"}) =>
    /\ ~pout.raised
    /\ \A i \in 1..Len(pout.features) :
         /\ pout.features[i].coordinates[1].t = "num"
         /\ pout.features[i].coordinates[2].t = "num"
    /\ Len(pout.features) =
         Len(pin.rows) - Cardinality({i \in 1..Len(pin.rows) :
                                        ~Locatable(pin.impl, pin.shape, pin.rows[i])})

\* a value that reads as no number: text, or null
Unparsable(v) == v.t \in {"text", "null"}

\* C15: a row whose value cannot be parsed as a number is kept, with value
\* null, whatever its pollutant and unit.
C15_UnparsableValueIsNull ==
  (pdone /\ pin.impl = "api" /\ pin.shape = "results") =>
    /\ Len(pout.features) = Len(KeptRows(pin.rows))
    /\ \A i \in 1..Len(pout.features) :
         Unparsable(KeptRows(pin.rows)[i].value) => pout.features[i].value.t = "null"

\* the UI identifier of a pollutant name of the table
Canonical(p) ==
  CASE p = "NO2" -> "no2"
    [] p = "SO2" -> "so2"
    [] p = "O3" -> "o3"
    [] p = "HCHO" -> "hcho"
    [] OTHER -> p

SourceParameter(impl, shape, r) ==
  IF impl = "api" THEN r.parameter
  ELSE IF r.t = "null" THEN ""
  ELSE IF r.properties.t = "object" /\ r.properties.parameter.t = "str" THEN r.properties.parameter.s
  ELSE IF r.own.parameter.t = "str" THEN r.own.parameter.s
  ELSE IF r.own.species.t = "str" THEN r.own.species.s
  ELSE pin.pollutant

\* C16: nothing is raised, and a body whose records all have resolvable
\* coordinates comes out record by record with the position [lon, lat] of the
\* source and the canonical pollutant identifier.
C16_LocationAndPollutant ==
  pdone =>
    /\ ~pout.raised
    /\ (\A i \in 1..Len(pin.rows) :
          /\ Locatable(pin.impl, pin.shape, pin.rows[i])
          /\ (pin.impl = "api" /\ pin.shape = "results") => pin.rows[i].arity6)
       =>
         /\ Len(pout.features) = Len(pin.rows)
         /\ \A i \in 1..Len(pin.rows) :
              /\ pout.features[i].coordinates[1] = JNum(SourceLon(pin.impl, pin.shape, pin.rows[i]).n)
              /\ pout.features[i].coordinates[2] = JNum(SourceLat(pin.impl, pin.shape, pin.rows[i]).n)
              /\ pout.features[i].parameter = Canonical(SourceParameter(pin.impl, pin.shape, pin.rows[i]))

\* what C17 expects of row r: the parsed value and the unit, converted under cond
Converted(r, f, cond) ==
  LET parsed == toNumberSafe(r.value)
  IN IF cond
     THEN /\ f.unit = "mol/m²"
          /\ f.value = IF parsed.t = "num" THEN [t |-> "scaled", n |-> parsed.n]
                       ELSE [t |-> "num", n |-> 0]
     ELSE /\ f.unit = r.unit
          /\ f.value = parsed

\* C17 as stated: converted exactly when the pollutant is NO2, SO2 or HCHO in
\* any case and the unit says molecules per cm2, in either spelling.
C17_Original ==
  (pdone /\ pin.impl = "api" /\ pin.shape = "results") =>
    \A i \in 1..Len(pout.features) :
      Converted(KeptRows(pin.rows)[i], pout.features[i],
                /\ KeptRows(pin.rows)[i].parameter \in {"no2", "NO2", "so2", "SO2", "hcho", "HCHO"}
                /\ KeptRows(pin.rows)[i].unit \in {"molecules/cm^2", "molecules/cm²"})

\* C17 amended: converted exactly when the pollutant is NO2, SO2 or HCHO in any
\* case and the unit is the string "molecules/cm^2": the value is multiplied by
\* 1e4 / 6.02214076e23 (null counting as 0) and the unit becomes mol/m²; in
\* every other case value and unit are as they came.
C17_ConversionExactlyWhen ==
  (pdone /\ pin.impl = "api" /\ pin.shape = "results") =>
    \A i \in 1..Len(pout.features) :
      Converted(KeptRows(pin.rows)[i], pout.features[i],
                /\ KeptRows(pin.rows)[i].parameter \in {"no2", "NO2", "so2", "SO2", "hcho", "HCHO"}
                /\ KeptRows(pin.rows)[i].unit = "molecules/cm^2")

C17_Witness ==
  /\ pdone
  /\ pin.impl = "api" /\ pin.shape = "results"
  /\ pin.rows = <<Row(TRUE, JNum(-314), JNum(-642), "NO2", JComma(155), "molecules/cm^2"),
                  Row(TRUE, JNum(-314), JNum(-642), "O3", JNum(5), "DU")>>
  /\ pout.features[1].value = [t |-> "scaled", n |-> 155]
  /\ pout.features[1].unit = "mol/m²"
  /\ pout.features[2].value = [t |-> "num", n |-> 5]
  /\ pout.features[2].unit = "DU"


\* C19: the box [w, s, e, n] is sent as its centre, lat = (s + n) / 2 and
\* lon = (w + e) / 2, with a radius in metres of at most 30000, and under no
\* other parameter that carries the box.
C19_PointAndCappedRadius ==
  (pdone /\ pout.sent) =>
    /\ 2 * pout.params.lat = (pin.bbox[2] + pin.bbox[4]) * 100
    /\ 2 * pout.params.lon = (pin.bbox[1] + pin.bbox[3]) * 100
    /\ pout.params.radius >= 0
    /\ pout.params.radius <= 30000
    /\ DOMAIN pout.params \subseteq
         {"lat", "lon", "radius", "limit", "parameter", "nonneg", "dropzero", "thin", "min"}

C19_Witness ==
  /\ pdone
  /\ pout.sent
  /\ pin.bbox = <<-168000, 5000, -52000, 83000>>
  /\ pout.params.lat = 4400000
  /\ pout.params.lon = -11000000
  /\ pout.params.radius = 30000

\* the indices of a series that hold a value and have a timestamp
NonNullAt(hourly, key) ==
  {i \in 1..Len(hourly.series[key]) : i <= Len(hourly.time) /\ hourly.series[key][i] # -1}

\* C21: the compact Open-Meteo answer holds, for each pollutant, the latest
\* non-null entry of its array with the timestamp of the same index, and leaves
\* a pollutant out only when its array has no non-null entry.
C21_LatestNonNull ==
  pdone =>
    \A key \in DOMAIN pin.series :
      LET I == NonNullAt(pin, key)
          mine == {j \in 1..Len(pout) : pout[j].parameter = key}
      IN IF I = {} THEN mine = {}
         ELSE LET last == CHOOSE i \in I : \A k \in I : k <= i
              IN /\ Cardinality(mine) = 1
                 /\ \A j \in mine : /\ pout[j].value = pin.series[key][last]
                                    /\ pout[j].datetime = pin.time[last]

C28_NoLoadAfterCleanup ==
  [][Len(loads') = Len(loads) + 1 => mounts[loads'[Len(loads')].mount].alive]_vars

\* C29: abortRef holds the controller created last, and every controller
\* created before that one has been aborted.
C29_OneLiveController ==
  /\ abortRef = Len(ctl)
  /\ \A i \in 1..Len(ctl) : i < Len(ctl) => ctl[i]

C29_Witness ==
  /\ Len(ctl) = 2
  /\ ctl[1] /\ ~ctl[2]
  /\ abortRef = 2
  /\ Len(mounts) = 2
  /\ loads[1].mount = 1 /\ loads[2].mount = 2

\* C24: a viewport fetch that ends by cancellation is not logged and does not
\* touch the displayed layer; a viewport fetch that fails in any other way is
\* logged.
C24_AbortSilentOthersLogged ==
  \A i \in 1..Len(loads) :
    loads[i].st = "rejected" =>
      /\ loads[i].cause = "abort" => (~loads[i].logged /\ layer.owner # i)
      /\ loads[i].cause # "abort" => loads[i].logged

C24_Witness ==
  /\ Len(loads) = 2
  /\ loads[1].st = "rejected" /\ loads[1].cause = "abort" /\ ~loads[1].logged
  /\ loads[2].st = "rejected" /\ loads[2].cause = "status" /\ loads[2].logged
  /\ layer = NoLayer

\* C26: a map has at most one MapView click handler registered, the one held by
\* clickHandlerRef; none is left registered once the cleanup has run; and one
\* click starts at most one point query.
C26_OneClickHandler ==
  /\ [](\A m \in 1..Len(mounts) :
          /\ Cardinality(mounts[m].listeners) <= 1
          /\ mounts[m].listeners \subseteq {clickHandlerRef}
          /\ ~mounts[m].alive => mounts[m].listeners = {})
  /\ [][/\ Len(clicks') <= Len(clicks) + 1
        /\ httpCount' <= httpCount + 1]_vars

C26_Witness ==
  /\ Len(mounts) = 2
  /\ mounts[1].listeners = {} /\ ~mounts[1].alive
  /\ mounts[2].listeners = {2}
  /\ clickHandlerRef = 2
  /\ Len(clicks) = 2
  /\ clicks[1].mount = 1 /\ clicks[2].mount = 2

\* C22: in a burst of moveend events less than 400 ms apart no viewport fetch
\* starts between two events, and exactly one starts for the burst, 400 ms
\* after its last event.
C22_OneLoadPerBurst ==
  /\ \A i \in 1..Len(dlog) :
       dlog[i].ev = "load" =>
         /\ i > 1
         /\ dlog[i - 1].ev = "moveend"
         /\ dlog[i].at = dlog[i - 1].at + 400
  /\ \A i \in 1..Len(dlog) :
       dlog[i].ev = "moveend" =>
         IF i < Len(dlog)
         THEN dlog[i + 1].ev = "moveend" => dlog[i + 1].at - dlog[i].at < 400
         ELSE due = {dlog[i].at + 400} /\ now <= dlog[i].at + 400

C22_Witness ==
  /\ Len(dlog) = 3
  /\ dlog[1].ev = "moveend" /\ dlog[2].ev = "moveend" /\ dlog[3].ev = "load"
  /\ dlog[2].at - dlog[1].at = 150
  /\ dlog[3].at = dlog[2].at + 400
  /\ loads # <<>>

\* the calls of fetchMeasurements for key k that missed the cache and completed
Fetched(k) ==
  {i \in 1..Len(loads) : loads[i].key = k /\ loads[i].st = "resolved" /\ loads[i].status # 0}

\* C23: when calls for one key overlap after missing the cache, the cache holds
\* for that key the result of one of the calls that completed; a call that
\* completes stores its own result under its own key only and leaves every
\* other call as it was.
C23_ConcurrentSameKey ==
  /\ [](\A k \in CacheKeys :
          IF Fetched(k) = {} THEN ~cache[k].present
          ELSE /\ cache[k].present
               /\ \E i \in Fetched(k) : cache[k].value = loads[i].fc)
  /\ [][\A i \in 1..Len(loads) :
          (loads[i].st = "fetch" /\ loads'[i].st # "fetch") =>
            /\ \A j \in 1..Len(loads) : j # i => loads'[j] = loads[j]
            /\ \A k \in CacheKeys : k # loads[i].key => cache'[k] = cache[k]
            /\ loads'[i].st = "resolved" => cache'[loads[i].key].value = loads'[i].fc
            /\ loads'[i].st = "rejected" => cache' = cache]_vars

C23_Witness ==
  /\ Len(loads) = 2
  /\ loads[1].key = loads[2].key
  /\ Fetched(loads[1].key) = {1, 2}
  /\ loads[1].fc # loads[2].fc
  /\ cache[loads[1].key].value = loads[1].fc

\* C27: the class modal-open of body, and aria-hidden and inert of the app
\* root, are there exactly while the modal is mounted and open.
C27_MarkedExactlyWhileOpen ==
  LET open == modal.mounted /\ modal.isOpen
  IN /\ modal.modalOpen <=> open
     /\ modal.ariaHidden <=> (open /\ modal.hasRoot)
     /\ modal.inert <=> (open /\ modal.hasRoot)

C27_Witness ==
  /\ ~modal.mounted
  /\ modal.hasRoot
  /\ modal.lastActive = "opener"
  /\ modal.active = "close"
  /\ ~modal.modalOpen /\ ~modal.ariaHidden /\ ~modal.inert

====
